---- MODULE Spec2Model ----
(***************************************************************************)
(* A model of cloudctl's session lifecycle: the encrypted credentials      *)
(* envelope (internal/storage.go), the silent refresh (internal/aws.go),   *)
(* the single and batch refresh planner (cmd/refresh.go), the daemon tick  *)
(* (cmd/list.go), switch and console (cmd/switch.go, cmd/console.go) and   *)
(* the shared-credentials-file synchronizer (internal/sync.go).            *)
(*                                                                         *)
(* Time is counted in milliseconds.  A credential triple issued by STS is  *)
(* identified by the number of the call that issued it.                    *)
(***************************************************************************)
EXTENDS Integers, Sequences, FiniteSets, TLC

VARIABLES
    storeFile,   \* content of $HOME/.cloudctl/credentials.json
    awsFile,     \* lines of $HOME/.aws/credentials
    now,         \* the wall clock, in milliseconds
    stsSeq,      \* number of credential triples STS has issued so far
    prompts,     \* interactive prompts issued by the running/last command
    stsCalls,    \* STS requests sent by the running/last command
    batch,       \* position and counters of a running `refresh --all`
    daemon,      \* the daemon PID file and the `daemon start` processes
    dotFiles,    \* the other files of $HOME/.cloudctl: sessions/*.json, mfa.json, roles.json
    inflight,    \* a second process in the middle of an operation on the envelope
    last         \* what the last command did (its arguments, path and output)

vars ==
    <<storeFile, awsFile, now, stsSeq, prompts, stsCalls, batch, daemon, dotFiles, inflight, last>>

----------------------------------------------------------------------------
(* Bounds of the model *)

MaxTicks == 1        \* the clock advances at most this many times
MaxSts == 1          \* STS issues at most this many credential triples
MaxLines == 3        \* length of the prior ~/.aws/credentials file
MaxDaemons == 2      \* number of `daemon start` invocations

(* Program constants *)

MsPerSec == 1000             \* time.RFC3339 keeps whole seconds
RefreshDuration == 3600      \* aws.go: duration := int32(3600)
LoginDuration == 3600        \* login.go: duration := int32(3600)
MinDuration == 900           \* refresh.go: if duration < 900
DefaultDuration == 3600      \* refresh.go: duration = 3600
MfaLoginDuration == 43200    \* mfa-login.go: --duration default
DaemonWindowMs == 900000     \* list.go: 15*time.Minute
DaemonIntervalMs == 300000   \* list.go: --interval default, 5 minutes
NonceSize == 12              \* crypto.go: aesGCM.NonceSize(), in bytes
TagSize == 16                \* cipher.NewGCM: the tag Seal appends, in bytes

\* the clock of the model advances in steps of the daemon's window
TickMs == DaemonWindowMs

MfaMarker == "MFA-Session"
DefaultRegion == "ap-southeast-1"

----------------------------------------------------------------------------
(* internal/crypto.go: AES-256-GCM under SHA-256(secret), as an ideal AEAD: *)
(* a ciphertext opens under the secret it was sealed with and no other.     *)

Encrypt(plainText, key) == [k |-> key, pt |-> plainText]

\* a cipher without tag: whatever the key and the bytes, something is returned
DecryptUnauthenticated(cipherText, key) ==
    IF "len" \in DOMAIN cipherText
    THEN [err |-> "none", pt |-> ""]
    ELSE [err |-> "none", pt |-> cipherText.pt]

\* crypto.go 35-58.  The bytes handed in are what Seal returned for pt under
\* k, the same with some bits flipped (flipped, not empty), or other bytes,
\* of which only the length matters (len).
Decrypt(cipherText, key) ==
    IF "len" \in DOMAIN cipherText
    THEN IF cipherText.len < NonceSize
         THEN [err |-> "cipher too short", pt |-> ""]
         ELSE [err |-> "cipher: message authentication failed", pt |-> ""]
    ELSE IF "flipped" \in DOMAIN cipherText
    THEN [err |-> "cipher: message authentication failed", pt |-> cipherText.pt]
    ELSE IF cipherText.k = key
    THEN [err |-> "none", pt |-> cipherText.pt]
    ELSE [err |-> "cipher: message authentication failed", pt |-> cipherText.pt]

----------------------------------------------------------------------------
(* Textual forms of the non-string fields *)

\* creds.Expiration.Format(time.RFC3339): the instant cut to whole seconds
FormatRFC3339(t) == t \div MsPerSec

\* time.Parse(time.RFC3339, expStr)
ParseRFC3339(str) == str * MsPerSec

RECURSIVE Digits(_)
Digits(n) == IF n < 10 THEN <<n>> ELSE Append(Digits(n \div 10), n % 10)

\* fmt.Sprintf("%d", creds.Duration)
FormatInt(d) == [neg |-> d < 0, digits |-> Digits(IF d < 0 THEN -d ELSE d)]

RECURSIVE DigitsValue(_)
DigitsValue(ds) ==
    IF ds = <<>> THEN 0
    ELSE 10 * DigitsValue(SubSeq(ds, 1, Len(ds) - 1)) + ds[Len(ds)]

\* fmt.Sscanf(durStr, "%d", &duration)
ScanInt(str) == IF str.neg THEN 0 - DigitsValue(str.digits) ELSE DigitsValue(str.digits)

----------------------------------------------------------------------------
(* internal/types.go: AWSSession *)

AccessKeyOf(n) == <<"AK", n>>
SecretKeyOf(n) == <<"SK", n>>
SessionTokenOf(n) == <<"ST", n>>

ZeroSession ==
    [Profile |-> "", AccessKey |-> AccessKeyOf(0), SecretKey |-> SecretKeyOf(0),
     SessionToken |-> SessionTokenOf(0), Expiration |-> 0, RoleArn |-> "",
     SessionName |-> "", SourceProfile |-> "", Region |-> "", MfaArn |-> "",
     Duration |-> 0, Revoked |-> FALSE]

----------------------------------------------------------------------------
(* The envelope file.  kind is "absent" (no file), "empty" (zero bytes),   *)
(* "corrupt" (bytes raw, which do not parse as JSON), "null" (the JSON     *)
(* text null) or "json" (an object; data maps each profile to its entry).  *)

NoData == [p \in {} |-> p]
AbsentFile == [kind |-> "absent", raw |-> "", data |-> NoData]
EmptyFile == [kind |-> "empty", raw |-> "", data |-> NoData]
NullFile == [kind |-> "null", raw |-> "", data |-> NoData]
CorruptFile(raw) == [kind |-> "corrupt", raw |-> raw, data |-> NoData]
JsonFile(data) == [kind |-> "json", raw |-> "", data |-> data]

\* storage.go 22-42: every field but Revoked is sealed under the key
EncryptSession(creds, key) ==
    [AccessKey |-> Encrypt(creds.AccessKey, key),
     SecretKey |-> Encrypt(creds.SecretKey, key),
     SessionToken |-> Encrypt(creds.SessionToken, key),
     Expiration |-> Encrypt(FormatRFC3339(creds.Expiration), key),
     RoleArn |-> Encrypt(creds.RoleArn, key),
     SessionName |-> Encrypt(creds.SessionName, key),
     SourceProfile |-> Encrypt(creds.SourceProfile, key),
     Region |-> Encrypt(creds.Region, key),
     MfaArn |-> Encrypt(creds.MfaArn, key),
     Duration |-> Encrypt(FormatInt(creds.Duration), key),
     Revoked |-> "absent"]

\* SaveParse without the json.Unmarshal error check: an unparseable file
\* counts as an empty envelope
SaveParseLenient(file) ==
    CASE file.kind \in {"absent", "empty", "corrupt"} -> [err |-> "none", data |-> NoData]
      [] file.kind = "null" -> [err |-> "panic: assignment to entry in nil map", data |-> NoData]
      [] OTHER -> [err |-> "none", data |-> file.data]

\* storage.go 44-50: the existing envelope as SaveCredentials reads it
SaveParse(file) ==
    CASE file.kind = "absent" -> [err |-> "none", data |-> NoData]
      [] file.kind = "empty" -> [err |-> "none", data |-> NoData]
      [] file.kind = "corrupt" ->
            [err |-> "failed to parse existing credentials file", data |-> NoData]
      [] file.kind = "null" -> [err |-> "panic: assignment to entry in nil map", data |-> NoData]
      [] OTHER -> [err |-> "none", data |-> file.data]

\* PutEntry on a fresh map instead of the loaded one
PutEntryAlone(data, profile, entry) == [q \in {profile} |-> entry]

\* storage.go 52: data[profile] = encrypted
PutEntry(data, profile, entry) ==
    [q \in (DOMAIN data) \cup {profile} |-> IF q = profile THEN entry ELSE data[q]]

\* storage.go 17-59
SaveCredentials(file, profile, creds, key) ==
    LET parsed == SaveParse(file) IN
    IF parsed.err # "none"
    THEN [err |-> parsed.err, file |-> file]
    ELSE [err |-> "none",
          file |-> JsonFile(PutEntry(parsed.data, profile, EncryptSession(creds, key)))]

\* storage.go 82-164
decryptSession(profile, enc, key) ==
    LET fields == {"Expiration", "Duration", "AccessKey", "SecretKey", "SessionToken",
                   "RoleArn", "SessionName", "SourceProfile", "Region", "MfaArn"}
        bad == {f \in fields : Decrypt(enc[f], key).err # "none"}
        get(f) == Decrypt(enc[f], key).pt
    IN IF bad # {}
       THEN [err |-> "failed to decrypt", s |-> ZeroSession]
       ELSE [err |-> "none",
             s |-> [Profile |-> profile,
                    AccessKey |-> get("AccessKey"),
                    SecretKey |-> get("SecretKey"),
                    SessionToken |-> get("SessionToken"),
                    Expiration |-> ParseRFC3339(get("Expiration")),
                    RoleArn |-> get("RoleArn"),
                    SessionName |-> get("SessionName"),
                    SourceProfile |-> get("SourceProfile"),
                    Region |-> get("Region"),
                    MfaArn |-> get("MfaArn"),
                    Duration |-> ScanInt(get("Duration")),
                    Revoked |-> (enc.Revoked = "true")]]

\* storage.go 62-79
LoadCredentials(file, profile, key) ==
    CASE file.kind = "absent" -> [err |-> "failed to read credentials file", s |-> ZeroSession]
      [] file.kind \in {"empty", "corrupt"} ->
            [err |-> "failed to decode credentials", s |-> ZeroSession]
      [] file.kind = "null" \/ profile \notin DOMAIN file.data ->
            [err |-> "profile not found in store", s |-> ZeroSession]
      [] OTHER -> decryptSession(profile, file.data[profile], key)

\* RemoveProfile writing the envelope back even when nothing is left in it
RemoveProfileKeepFile(file, profile) ==
    IF file.kind = "json" /\ profile \in DOMAIN file.data
    THEN [err |-> "none",
          file |-> JsonFile([q \in (DOMAIN file.data) \ {profile} |-> file.data[q]])]
    ELSE [err |-> "profile not found", file |-> file]

\* storage.go 167-193
RemoveProfile(file, profile) ==
    CASE file.kind = "absent" -> [err |-> "failed to read store", file |-> file]
      [] file.kind \in {"empty", "corrupt"} ->
            [err |-> "failed to parse credentials", file |-> file]
      [] file.kind = "null" \/ profile \notin DOMAIN file.data ->
            [err |-> "profile not found", file |-> file]
      [] OTHER ->
            LET rest == [q \in (DOMAIN file.data) \ {profile} |-> file.data[q]] IN
            [err |-> "none",
             file |-> IF DOMAIN rest = {} THEN AbsentFile ELSE JsonFile(rest)]

\* storage.go 196-201
ClearAllCredentials(file) == [err |-> "none", file |-> AbsentFile]

\* ListAllSessions leaving out the entries it cannot decrypt
ListDecryptable(file, key) ==
    IF file.kind # "json" THEN [err |-> "none", sessions |-> {}]
    ELSE [err |-> "none",
          sessions |-> {r.s : r \in {x \in {decryptSession(p, file.data[p], key) :
                                               p \in DOMAIN file.data} : x.err = "none"}}]

\* storage.go 204-230: the sessions as a set; the order of the Go slice is
\* the map's iteration order, which callers draw separately
ListAllSessions(file, key) ==
    CASE file.kind = "absent" -> [err |-> "none", sessions |-> {}]
      [] file.kind \in {"empty", "corrupt"} ->
            [err |-> "failed to decode credentials", sessions |-> {}]
      [] file.kind = "null" -> [err |-> "none", sessions |-> {}]
      [] OTHER ->
            LET all == {decryptSession(p, file.data[p], key) : p \in DOMAIN file.data} IN
            IF \E r \in all : r.err # "none"
            THEN [err |-> "failed to decrypt session", sessions |-> {}]
            ELSE [err |-> "none", sessions |-> {r.s : r \in all}]

\* storage.go 233-252
ListProfiles(file) ==
    CASE file.kind = "absent" -> [err |-> "none", keys |-> {}]
      [] file.kind \in {"empty", "corrupt"} ->
            [err |-> "failed to parse credentials", keys |-> {}]
      [] file.kind = "null" -> [err |-> "none", keys |-> {}]
      [] OTHER -> [err |-> "none", keys |-> DOMAIN file.data]

----------------------------------------------------------------------------
(* State left alone by a model that does not use it *)

IdleBatch ==
    [pc |-> "idle", queue |-> <<>>, refreshed |-> 0, skipped |-> 0, failed |-> 0,
     restoredSources |-> NoData, began |-> AbsentFile]

NoCommand == [op |-> "none"]

\* no session file and no alias file
NoDotFiles == [sessions |-> NoData, mfa |-> AbsentFile, roles |-> AbsentFile]

\* no second process
NoInflight == [pc |-> "idle"]

\* no PID file and no daemon process
NoDaemon == [pidFile |-> 0, pc |-> <<>>, due |-> <<>>, failed |-> <<>>]

----------------------------------------------------------------------------
(* The store model: SaveCredentials, LoadCredentials, RemoveProfile and    *)
(* ClearAllCredentials called on any envelope file, in any order.          *)

StoreProfiles == {"p1", "p2"}
StoreKeys == {"K1", "K2"}
CorruptContents == {"{ invalid json...", "not json at all"}
RoleR == "arn:aws:iam::123:role/R"
DeviceU == "arn:aws:iam::123:mfa/u"

\* the sessions a caller may hand to SaveCredentials
StoreSessions ==
    {[Profile |-> p, AccessKey |-> AccessKeyOf(ne[1]), SecretKey |-> SecretKeyOf(ne[1]),
      SessionToken |-> SessionTokenOf(ne[1]), Expiration |-> ne[2], RoleArn |-> rd[1],
      SessionName |-> p, SourceProfile |-> "default", Region |-> "",
      MfaArn |-> rd[3], Duration |-> rd[2], Revoked |-> rv] :
        p \in StoreProfiles, ne \in {<<1, 1500>>, <<2, 2000>>},
        rd \in {<<MfaMarker, 43200, DeviceU>>, <<RoleR, 0, "">>},
        rv \in BOOLEAN}

\* an entry carrying the unencrypted "Revoked": "true" mark
RevokedEntry(creds, key) == [EncryptSession(creds, key) EXCEPT !.Revoked = "true"]

StoreInitFiles ==
    {AbsentFile, EmptyFile, NullFile}
        \cup {CorruptFile(raw) : raw \in CorruptContents}
        \cup {JsonFile([q \in {"p2"} |-> RevokedEntry(s, "K1")]) :
                s \in {x \in StoreSessions : x.Profile = "p2" /\ x.AccessKey = AccessKeyOf(1)
                                             /\ x.Duration = 0 /\ x.Revoked}}

StoreOp(op, profile, key, creds, err, res) ==
    [op |-> op, profile |-> profile, key |-> key, creds |-> creds, err |-> err,
     res |-> res, pre |-> storeFile]

StoreFrame == UNCHANGED <<awsFile, now, stsSeq, prompts, stsCalls, batch, daemon,
                          dotFiles, inflight>>

StoreInit ==
    /\ storeFile \in StoreInitFiles
    /\ awsFile = <<>>
    /\ now = 0
    /\ stsSeq = 0
    /\ prompts = <<>>
    /\ stsCalls = <<>>
    /\ batch = IdleBatch
    /\ daemon = NoDaemon
    /\ dotFiles = NoDotFiles
    /\ inflight = NoInflight
    /\ last = NoCommand

StoreSave ==
    \E s \in StoreSessions, k \in StoreKeys :
        LET r == SaveCredentials(storeFile, s.Profile, s, k) IN
        /\ storeFile' = r.file
        /\ last' = StoreOp("save", s.Profile, k, s, r.err, ZeroSession)
        /\ StoreFrame

StoreLoad ==
    \E p \in StoreProfiles, k \in StoreKeys :
        LET r == LoadCredentials(storeFile, p, k) IN
        /\ last' = StoreOp("load", p, k, ZeroSession, r.err, r.s)
        /\ UNCHANGED storeFile
        /\ StoreFrame

StoreRemove ==
    \E p \in StoreProfiles :
        LET r == RemoveProfile(storeFile, p) IN
        /\ storeFile' = r.file
        /\ last' = StoreOp("remove", p, "", ZeroSession, r.err, ZeroSession)
        /\ StoreFrame

StoreClearAll ==
    LET r == ClearAllCredentials(storeFile) IN
    /\ storeFile' = r.file
    /\ last' = StoreOp("clear", "", "", ZeroSession, r.err, ZeroSession)
    /\ StoreFrame

StoreList ==
    \E k \in StoreKeys :
        LET r == ListAllSessions(storeFile, k) IN
        /\ last' = StoreOp("list", "", k, ZeroSession, r.err, r.sessions)
        /\ UNCHANGED storeFile
        /\ StoreFrame

StoreNext == StoreSave \/ StoreLoad \/ StoreRemove \/ StoreClearAll \/ StoreList

SpecStore == StoreInit /\ [][StoreNext]_vars

----------------------------------------------------------------------------
(* Claims about the store *)

\* C2 (as amended): when credentials.json holds bytes that do not parse as
\* JSON, SaveCredentials for any profile returns an error and leaves the
\* file byte-for-byte unchanged.
C2_CorruptSaveRefused ==
    (last.op = "save" /\ last.pre.kind = "corrupt")
        => (last.err # "none" /\ storeFile = last.pre)

C2_Witness ==
    /\ last.op = "save"
    /\ last.pre.kind = "corrupt"
    /\ last.err # "none"
    /\ storeFile.raw \in CorruptContents

\* C2 (as claimed): whenever credentials.json exists and is not valid JSON
\* (a zero-length file is not valid JSON either), SaveCredentials returns
\* an error and leaves the file unchanged.
C2_AnyInvalidSaveRefused ==
    (last.op = "save" /\ last.pre.kind \in {"corrupt", "empty"})
        => (last.err # "none" /\ storeFile = last.pre)

\* C3: a successful save of profile p keeps every other profile of the
\* envelope: its entry is still there and loads, under any secret, to the
\* same result as before the save.
C3_SaveKeepsOthers ==
    (last.op = "save" /\ last.err = "none")
        => \A q \in (DOMAIN last.pre.data) \ {last.profile} :
              /\ storeFile.kind = "json"
              /\ q \in DOMAIN storeFile.data
              /\ \A k \in StoreKeys :
                    LoadCredentials(storeFile, q, k) = LoadCredentials(last.pre, q, k)

C3_Witness ==
    /\ last.op = "save"
    /\ last.err = "none"
    /\ \E q \in (DOMAIN last.pre.data) \ {last.profile} :
          \E k \in StoreKeys : LoadCredentials(storeFile, q, k).err = "none"

\* equality of two sessions in every field, the expiration compared at
\* RFC3339 (whole second) precision
SameSession(a, b) ==
    /\ a.Profile = b.Profile
    /\ a.AccessKey = b.AccessKey
    /\ a.SecretKey = b.SecretKey
    /\ a.SessionToken = b.SessionToken
    /\ FormatRFC3339(a.Expiration) = FormatRFC3339(b.Expiration)
    /\ a.RoleArn = b.RoleArn
    /\ a.SessionName = b.SessionName
    /\ a.SourceProfile = b.SourceProfile
    /\ a.Region = b.Region
    /\ a.MfaArn = b.MfaArn
    /\ a.Duration = b.Duration
    /\ a.Revoked = b.Revoked

\* C4: after saving session S under secret K, loading the same profile
\* with K returns a session equal to S in every field (the revoked flag
\* included), the expiration equal at RFC3339-second precision.
C4_RoundTrip ==
    (last.op = "save" /\ last.err = "none")
        => LET r == LoadCredentials(storeFile, last.profile, last.key) IN
           r.err = "none" /\ SameSession(r.s, last.creds)

----------------------------------------------------------------------------
(* The shared credentials file ~/.aws/credentials, as the lines that       *)
(* strings.Split(content, "\n") yields.  A line is blank, a section header *)
(* [name], a "; Managed by cloudctl ..." comment, another ";" comment, or  *)
(* any other text (a key = value pair).                                    *)

Line(t, name, v) == [t |-> t, name |-> name, v |-> v]
BlankLine == Line("blank", "", <<>>)
HeaderLine(name) == Line("hdr", name, <<>>)
ManagedLine(sessionType, v) == Line("managed", sessionType, v)
CommentLine == Line("comment", "; note", <<>>)
KeyLine(key, v) == Line("kv", key, v)

\* sync.go 54: strings.HasPrefix(trimmed, "[") && strings.HasSuffix(trimmed, "]")
IsHeader(line) == line.t = "hdr"
\* sync.go 66: strings.HasPrefix(trimmed, "; Managed by cloudctl")
IsManaged(line) == line.t = "managed"
\* sync.go 71: tj == "" || strings.HasPrefix(tj, ";")
IsBlankOrComment(line) == line.t \in {"blank", "comment", "managed"}

\* timeutil: FormatBKK, the instant at second precision in UTC+7
FormatBKK(t) == <<"bkk", (t \div MsPerSec) + 7 * 60 * 60>>

\* sync.go 67-78: the header the look-ahead from line j finds, "" if none
RECURSIVE LookAhead(_, _)
LookAhead(lines, j) ==
    IF j > Len(lines) THEN ""
    ELSE IF IsBlankOrComment(lines[j]) THEN LookAhead(lines, j + 1)
    ELSE IF IsHeader(lines[j]) THEN lines[j].name
    ELSE ""

\* sync.go 47-97: the walk over the existing lines from line i on, with
\* skipSection as left by the lines before i and acc the lines kept so far
RECURSIVE RemoveSections(_, _, _, _, _)
RemoveSections(lines, i, skipSection, acc, names) ==
    IF i > Len(lines) THEN acc
    ELSE LET line == lines[i]
             skip == IF IsHeader(line) THEN line.name \in names ELSE skipSection
             found == LookAhead(lines, i + 1)
         IN IF IsManaged(line) /\ found # "" /\ found \in names
            THEN RemoveSections(lines, i + 1, skip, acc, names)
            ELSE IF ~skip
            THEN RemoveSections(lines, i + 1, skip, Append(acc, line), names)
            ELSE RemoveSections(lines, i + 1, skip, acc, names)

\* sync.go 99-102
RECURSIVE StripTrailingBlank(_)
StripTrailingBlank(lines) ==
    IF Len(lines) > 0 /\ lines[Len(lines)].t = "blank"
    THEN StripTrailingBlank(SubSeq(lines, 1, Len(lines) - 1))
    ELSE lines

\* sync.go 104-107
AddSeparator(lines) ==
    IF Len(lines) > 0 /\ lines[Len(lines)] # BlankLine THEN Append(lines, BlankLine) ELSE lines

\* sync.go 111-122: the block written for one session
SectionBlock(s) ==
    << ManagedLine(IF s.RoleArn = MfaMarker THEN "MFA Session" ELSE "Role Session",
                   FormatBKK(s.Expiration)),
       HeaderLine(s.Profile),
       KeyLine("aws_access_key_id", s.AccessKey),
       KeyLine("aws_secret_access_key", s.SecretKey),
       KeyLine("aws_session_token", s.SessionToken),
       BlankLine >>

\* sync.go 110-124
RECURSIVE AppendSections(_, _)
AppendSections(lines, targets) ==
    IF targets = <<>> THEN lines
    ELSE AppendSections(lines \o SectionBlock(Head(targets)), Tail(targets))

\* Rewrite keeping every line of the prior file
RewriteAppendOnly(lines, targets) ==
    AppendSections(AddSeparator(StripTrailingBlank(lines)), targets)

\* sync.go 46-124: the new content for the target sessions, in their order
Rewrite(lines, targets) ==
    LET names == {targets[i].Profile : i \in 1..Len(targets)} IN
    AppendSections(
        AddSeparator(StripTrailingBlank(RemoveSections(lines, 1, FALSE, <<>>, names))),
        targets)

\* the orders in which a Go map of these sessions may be enumerated
Orders(sessions) ==
    {q \in [1..Cardinality(sessions) -> sessions] :
        \A i, j \in 1..Cardinality(sessions) : i # j => q[i] # q[j]}

\* a session counted as active at the instant it expires
IsActiveAtExpiry(s, t) == s.Expiration >= t

\* sync.go 29: s.Expiration.After(now)
IsActive(s, t) == s.Expiration > t

\* sync.go 26-33
ActiveSessions(sessions, t) == {s \in sessions : IsActive(s, t)}

\* sync.go 13-133: SyncAllToAWS, the sessions enumerated in the order `order`
SyncAllToAWS(file, lines, secret, t, order) ==
    LET all == ListAllSessions(file, secret)
        active == SelectSeq(order, LAMBDA s : IsActive(s, t))
    IN IF all.err # "none" THEN [err |-> "failed to load sessions", count |-> 0,
                                 lines |-> lines, targets |-> <<>>]
       ELSE IF all.sessions = {} \/ active = <<>>
       THEN [err |-> "none", count |-> 0, lines |-> lines, targets |-> <<>>]
       ELSE [err |-> "none", count |-> Len(active), lines |-> Rewrite(lines, active),
             targets |-> active]

----------------------------------------------------------------------------
(* The sync model: `sync --all` and `sync --profile p` run on any prior    *)
(* credentials file of at most MaxLines lines.                             *)

Secret == "K1"
SyncNow == TickMs

SyncAlphabet ==
    {BlankLine, HeaderLine("prod"), HeaderLine("legacy"),
     ManagedLine("Role Session", FormatBKK(0)), CommentLine, KeyLine("aws_access_key_id", <<"AK", 9>>)}

RECURSIVE LinesUpTo(_)
LinesUpTo(n) ==
    IF n = 0 THEN {<<>>}
    ELSE LET shorter == LinesUpTo(n - 1) IN
         shorter \cup {Append(l, x) : l \in {y \in shorter : Len(y) = n - 1}, x \in SyncAlphabet}

RoleSession(p, n, exp, source) ==
    [Profile |-> p, AccessKey |-> AccessKeyOf(n), SecretKey |-> SecretKeyOf(n),
     SessionToken |-> SessionTokenOf(n), Expiration |-> exp, RoleArn |-> RoleR,
     SessionName |-> "", SourceProfile |-> source, Region |-> "", MfaArn |-> "",
     Duration |-> 0, Revoked |-> FALSE]

MfaSession(p, n, exp, source) ==
    [RoleSession(p, n, exp, source) EXCEPT !.RoleArn = MfaMarker, !.MfaArn = DeviceU]

\* the envelope holding exactly these sessions, saved under the secret
RECURSIVE StoreOf(_)
StoreOf(sessions) ==
    IF sessions = {} THEN AbsentFile
    ELSE LET s == CHOOSE x \in sessions : TRUE IN
         SaveCredentials(StoreOf(sessions \ {s}), s.Profile, s, Secret).file

SyncInitStores ==
    {StoreOf({RoleSession("prod", 1, e, "default")} \cup d) :
        e \in {SyncNow, SyncNow + TickMs},
        d \in {{}, {MfaSession("dev", 2, SyncNow + TickMs, "default")}}}

SyncFrame == UNCHANGED <<storeFile, now, stsSeq, prompts, stsCalls, batch, daemon,
                         dotFiles, inflight>>

SyncInit ==
    /\ storeFile \in SyncInitStores
    /\ awsFile \in LinesUpTo(MaxLines)
    /\ now = SyncNow
    /\ stsSeq = 0
    /\ prompts = <<>>
    /\ stsCalls = <<>>
    /\ batch = IdleBatch
    /\ daemon = NoDaemon
    /\ dotFiles = NoDotFiles
    /\ inflight = NoInflight
    /\ last = NoCommand

\* cmd/sync.go 236-245: sync --all
SyncAll ==
    \E order \in Orders(ListAllSessions(storeFile, Secret).sessions) :
        LET r == SyncAllToAWS(storeFile, awsFile, Secret, now, order) IN
        /\ awsFile' = r.lines
        /\ last' = [op |-> "sync", all |-> TRUE, pre |-> awsFile, targets |-> r.targets,
                    count |-> r.count, err |-> r.err]
        /\ SyncFrame

\* cmd/sync.go 247-409: sync of one profile, named or picked from the list
\* of active sessions
SyncOne ==
    \E profile \in {"prod", "dev"} :
        LET all == ListAllSessions(storeFile, Secret)
            active == ActiveSessions(all.sessions, now)
            chosen == {s \in active : s.Profile = profile}
        IN IF all.err # "none" \/ all.sessions = {} \/ active = {} \/ chosen = {}
           THEN /\ last' = [op |-> "sync", all |-> FALSE, pre |-> awsFile, targets |-> <<>>,
                            count |-> 0, err |-> "nothing to sync"]
                /\ UNCHANGED awsFile
                /\ SyncFrame
           ELSE LET targets == <<CHOOSE s \in chosen : TRUE>> IN
                /\ awsFile' = Rewrite(awsFile, targets)
                /\ last' = [op |-> "sync", all |-> FALSE, pre |-> awsFile, targets |-> targets,
                            count |-> 1, err |-> "none"]
                /\ SyncFrame

SyncNext == SyncAll \/ SyncOne

SpecSync == SyncInit /\ [][SyncNext]_vars

----------------------------------------------------------------------------
(* Claims about sync *)

\* the header line governing line i of lines: the nearest header at or
\* above i, 0 if there is none
RECURSIVE SectionOf(_, _)
SectionOf(lines, i) ==
    IF i = 0 THEN 0 ELSE IF IsHeader(lines[i]) THEN i ELSE SectionOf(lines, i - 1)

\* the nearest line above i that is neither blank nor a section header
RECURSIVE Preceding(_, _)
Preceding(lines, i) ==
    IF i <= 1 THEN 0
    ELSE IF lines[i - 1].t \in {"blank", "hdr"} THEN Preceding(lines, i - 1)
    ELSE i - 1

\* a section is owned iff the immediately preceding non-blank non-section
\* line is a "; Managed by cloudctl" comment
OwnedSection(lines, h) ==
    h > 0 /\ Preceding(lines, h) > 0 /\ IsManaged(lines[Preceding(lines, h)])

\* the lines that belong to no owned section: not blank, not in an owned
\* section, and not the managed comment in front of a section
Foreign(lines) ==
    SelectSeq([i \in 1..Len(lines) |-> <<i, lines[i]>>],
              LAMBDA e : /\ e[2].t # "blank"
                         /\ ~OwnedSection(lines, SectionOf(lines, e[1]))
                         /\ ~(IsManaged(e[2]) /\ LookAhead(lines, e[1] + 1) # ""))

\* a[i..] is a subsequence of b[j..]
RECURSIVE IsSubseq(_, _, _, _)
IsSubseq(a, i, b, j) ==
    IF i > Len(a) THEN TRUE
    ELSE IF j > Len(b) THEN FALSE
    ELSE IF a[i][2] = b[j] THEN IsSubseq(a, i + 1, b, j + 1)
    ELSE IsSubseq(a, i, b, j + 1)

\* C5: sync never removes or reorders a line that does not belong to a
\* CloudCtl-owned section: the lines of the prior file outside owned
\* sections are all in the new file, in the same order.
C5_SyncKeepsForeignLines ==
    last.op = "sync" => IsSubseq(Foreign(last.pre), 1, awsFile, 1)

----------------------------------------------------------------------------
(* The command model: switch and console run on stored sessions while the  *)
(* clock advances.                                                         *)

\* the clock advances by one step
Tick ==
    /\ now < MaxTicks * TickMs
    /\ now' = now + TickMs
    /\ UNCHANGED <<storeFile, awsFile, stsSeq, prompts, stsCalls, batch, daemon,
                   dotFiles, inflight, last>>

CmdProfiles == {"a", "m", "x"}

CmdInitStores ==
    {StoreOf({RoleSession("a", 1, e, "m")} \cup d) :
        e \in {TickMs, 2 * TickMs},
        d \in {{}, {MfaSession("m", 2, 2 * TickMs, "default")}}}

CmdResult(op, profile, interactive, s, exports, requests, url, err) ==
    [op |-> op, profile |-> profile, interactive |-> interactive, s |-> s, at |-> now,
     exports |-> exports, requests |-> requests, url |-> url, err |-> err]

CmdFrame == UNCHANGED <<storeFile, awsFile, now, stsSeq, prompts, stsCalls, batch, daemon,
                        dotFiles, inflight>>

CmdInit ==
    /\ storeFile \in CmdInitStores
    /\ awsFile = <<>>
    /\ now = 0
    /\ stsSeq = 0
    /\ prompts = <<>>
    /\ stsCalls = <<>>
    /\ batch = IdleBatch
    /\ daemon = NoDaemon
    /\ dotFiles = NoDotFiles
    /\ inflight = NoInflight
    /\ last = NoCommand

\* switch.go 83-86
ExportLines(s) ==
    << <<"export AWS_ACCESS_KEY_ID", s.AccessKey>>,
       <<"export AWS_SECRET_ACCESS_KEY", s.SecretKey>>,
       <<"export AWS_SESSION_TOKEN", s.SessionToken>> >>

\* switch.go 51-87: the command once the profile is known
SwitchProfile(profile, interactive, secretOk) ==
    LET r == LoadCredentials(storeFile, profile, Secret) IN
    IF ~secretOk
    THEN CmdResult("switch", profile, interactive, ZeroSession, <<>>, <<>>, FALSE,
                   "Encryption secret required")
    ELSE IF r.err # "none"
    THEN CmdResult("switch", profile, interactive, ZeroSession, <<>>, <<>>, FALSE,
                   "Profile not found")
    ELSE CmdResult("switch", profile, interactive, r.s, ExportLines(r.s), <<>>, FALSE, "none")

\* switch.go 29-87
Switch ==
    \E interactive \in BOOLEAN, secretOk \in BOOLEAN :
        LET listed == ListProfiles(storeFile) IN
        /\ IF interactive
           THEN IF listed.err # "none" \/ listed.keys = {}
                THEN last' = CmdResult("switch", "", TRUE, ZeroSession, <<>>, <<>>, FALSE,
                                       "No profiles found")
                ELSE \E selected \in listed.keys :
                        last' = SwitchProfile(selected, TRUE, secretOk)
           ELSE \E profile \in CmdProfiles : last' = SwitchProfile(profile, FALSE, secretOk)
        /\ CmdFrame

\* a session taken for an MFA base session only when it has no role
IsMfaBaseByEmptyRole(s) == s.RoleArn = ""

\* console.go 54, 92: the test for an MFA base session
IsMfaBase(s) == s.RoleArn = MfaMarker \/ s.RoleArn = ""

\* console.go 74-156: the command once the profile is known; httpOk tells
\* whether the federation endpoint answers with a SigninToken
ConsoleProfile(profile, interactive, httpOk) ==
    LET r == LoadCredentials(storeFile, profile, Secret)
        s == r.s
        request == <<[Action |-> "getSigninToken", sessionId |-> s.AccessKey,
                      sessionKey |-> s.SecretKey, sessionToken |-> s.SessionToken]>>
    IN IF r.err # "none"
       THEN CmdResult("console", profile, interactive, ZeroSession, <<>>, <<>>, FALSE,
                      "Failed to load session")
       ELSE IF now > s.Expiration
       THEN CmdResult("console", profile, interactive, s, <<>>, <<>>, FALSE,
                      "Session has expired")
       ELSE IF IsMfaBase(s)
       THEN CmdResult("console", profile, interactive, s, <<>>, <<>>, FALSE,
                      "MFA base sessions cannot be used for console access")
       ELSE IF ~httpOk
       THEN CmdResult("console", profile, interactive, s, <<>>, request, FALSE,
                      "Failed to get sign-in token")
       ELSE CmdResult("console", profile, interactive, s, <<>>, request, TRUE, "none")

\* console.go 47-58: the profiles offered for selection
ConsoleValidProfiles(sessions) ==
    {s.Profile : s \in {x \in sessions : ~(now > x.Expiration)
                                         /\ ~IsMfaBase(x)}}

\* console.go 28-156
Console ==
    \E interactive \in BOOLEAN, secretOk \in BOOLEAN, httpOk \in BOOLEAN :
        LET all == ListAllSessions(storeFile, Secret)
            valid == ConsoleValidProfiles(all.sessions)
        IN
        /\ IF ~secretOk
           THEN last' = CmdResult("console", "", interactive, ZeroSession, <<>>, <<>>, FALSE,
                                  "Encryption secret required")
           ELSE IF interactive
           THEN IF all.err # "none" \/ valid = {}
                THEN last' = CmdResult("console", "", TRUE, ZeroSession, <<>>, <<>>, FALSE,
                                       "No valid active sessions found")
                ELSE \E selected \in valid : last' = ConsoleProfile(selected, TRUE, httpOk)
           ELSE \E profile \in CmdProfiles : last' = ConsoleProfile(profile, FALSE, httpOk)
        /\ CmdFrame

CmdNext == Tick \/ Switch \/ Console

SpecCmd == CmdInit /\ [][CmdNext]_vars

----------------------------------------------------------------------------
(* Claims about switch and console *)

\* C6: switch and console refuse a stored session whose expiration is at
\* or before now: switch prints no export lines for it and console builds
\* no URL for it, whether the profile was named or chosen interactively.
C6_ExpiredRefused ==
    (last.op \in {"switch", "console"} /\ last.s.Profile # "" /\ last.s.Expiration <= last.at)
        => (last.exports = <<>> /\ ~last.url)

----------------------------------------------------------------------------
(* STS, the terminal and the AWS CLI configuration, as the commands see    *)
(* them.                                                                   *)

Profiles == {"m", "a", "b"}

\* the profiles of ~/.aws/config and ~/.aws/credentials
AwsProfiles == {"default"}

\* what the user may type at a y/n question
Answers == {"y", "n"}

GoodCode == "123456"
ReadFailure == "failed to read input"

\* utils.go 12-49: what readMFACode returns: the code typed (possibly
\* empty), or the process dies in log.Fatalf when stdin cannot be read
MfaCodes == {"", GoodCode, ReadFailure}

Prompt(kind, about, answer) == [kind |-> kind, about |-> about, answer |-> answer]

Out(msg, arg) == [msg |-> msg, arg |-> arg]

\* an STS request: the profile it is issued for, its input and the
\* credentials and region of the client that sends it
StsCall(op, target, roleArn, name, duration, serial, code, region, src) ==
    [op |-> op, target |-> target, RoleArn |-> roleArn, RoleSessionName |-> name,
     DurationSeconds |-> duration, SerialNumber |-> serial, TokenCode |-> code,
     region |-> region, signer |-> <<src.kind, src.name, src.key>>]

\* credentials.NewStaticCredentialsProvider(session.AccessKey, ...)
StoredSource(s) ==
    [err |-> "none", kind |-> "stored", name |-> s.Profile, key |-> s.AccessKey,
     exp |-> s.Expiration]

\* config.WithSharedConfigProfile(name): a named profile must exist, the
\* empty name stands for the default credential chain
SharedSource(name) ==
    [err |-> IF name = "" \/ name \in AwsProfiles THEN "none"
             ELSE "failed to get shared config profile",
     kind |-> "shared", name |-> name, key |-> AccessKeyOf(0), exp |-> 0]

\* STS answers a request when the service is reachable and willing (ok),
\* temporary credentials that sign it have not expired, and a token code
\* comes with a device serial number and is the device's current code
StsAccepts(call, src, t, seq, ok) ==
    /\ ok
    /\ seq < MaxSts
    /\ src.kind = "shared" \/ t < src.exp
    /\ \/ call.SerialNumber = "" /\ call.TokenCode = ""
       \/ call.SerialNumber # "" /\ call.TokenCode = GoodCode

\* the credentials of the (seq+1)-th answer of STS, valid for duration seconds
Issued(seq, t, duration) ==
    [AccessKey |-> AccessKeyOf(seq + 1), SecretKey |-> SecretKeyOf(seq + 1),
     SessionToken |-> SessionTokenOf(seq + 1), Expiration |-> t + duration * MsPerSec]

\* the AWSSession literal the refresh paths build: SessionName and Revoked
\* are left at their zero values
NewSession(s, creds, roleArn, region, duration) ==
    [Profile |-> s.Profile, AccessKey |-> creds.AccessKey, SecretKey |-> creds.SecretKey,
     SessionToken |-> creds.SessionToken, Expiration |-> creds.Expiration,
     RoleArn |-> roleArn, SessionName |-> "", SourceProfile |-> s.SourceProfile,
     Region |-> region, MfaArn |-> s.MfaArn, Duration |-> duration, Revoked |-> FALSE]

----------------------------------------------------------------------------
(* internal/aws.go: the silent refresh *)

\* the marker test without the marker: no session counts as an MFA session
IsMfaSessionNever(s) == FALSE

\* aws.go 45, refresh.go 94, 152, 265, list.go 179: s.RoleArn == "MFA-Session"
IsMfaSession(s) == s.RoleArn = MfaMarker

\* the session name taken from the stored SessionName field
StoredSessionName(s) == s.SessionName

\* aws.go 85: sessionName := s.Profile
RefreshSessionName(s) == s.Profile

Refreshed(err, file, seq, calls) == [err |-> err, file |-> file, seq |-> seq, calls |-> calls]

\* aws.go 57, 71-81 (refresh.go 127-143): the credentials of the client,
\* the stored session of that name if LoadCredentials found one, the shared
\* configuration profile otherwise
SourceOf(loaded, name) ==
    IF loaded.err = "none" THEN StoredSource(loaded.s) ELSE SharedSource(name)

\* aws.go 44-115: PerformRefresh(s, secret, region) at time t on the store
\* file, STS having issued seq credentials so far
PerformRefresh(file, seq, t, s, secret, region, ok) ==
    LET Assume(src) ==
            LET call == StsCall("AssumeRole", s.Profile, s.RoleArn, RefreshSessionName(s),
                                RefreshDuration, "", "", region, src)
                Save(saved) == Refreshed(saved.err, saved.file, seq + 1, <<call>>)
            IN IF src.err # "none"
               THEN Refreshed("failed to load source", file, seq, <<>>)
               ELSE IF ~StsAccepts(call, src, t, seq, ok)
               THEN Refreshed("AssumeRole failed", file, seq, <<call>>)
               ELSE Save(SaveCredentials(file, s.Profile,
                                         NewSession(s, Issued(seq, t, RefreshDuration),
                                                    s.RoleArn, s.Region, s.Duration),
                                         secret))
        Source(loaded) ==
            IF loaded.err = "none" /\ t > loaded.s.Expiration
            THEN Refreshed("source session has expired", file, seq, <<>>)
            ELSE Assume(SourceOf(loaded, s.SourceProfile))
    IN IF IsMfaSession(s)
       THEN Refreshed("MFA sessions cannot be silently refreshed", file, seq, <<>>)
       ELSE IF s.SourceProfile = ""
       THEN Refreshed("no source profile stored for this session", file, seq, <<>>)
       ELSE Source(LoadCredentials(file, s.SourceProfile, secret))

----------------------------------------------------------------------------
(* cmd/refresh.go: smartRefresh *)

\* what the environment holds for one smartRefresh: whether STS answers
\* the silent and the restoring request, and what readMFACode returns
SmartInputs == [silentOk : BOOLEAN, stsOk : BOOLEAN, code : MfaCodes]

Smart(err, silent, file, seq, asked, calls, out) ==
    [err |-> err, silent |-> silent, file |-> file, seq |-> seq, asked |-> asked,
     calls |-> calls, out |-> out]

\* the silent path never taken
SilentEligibleNever(s, isExpired, force) == FALSE

\* refresh.go 94
SilentEligible(s, isExpired, force) ==
    ~isExpired /\ ~force /\ ~IsMfaSession(s) /\ s.SourceProfile # ""

\* smartRefresh returning after the silent attempt whatever its result
SilentDoneAlways(err) == TRUE

\* refresh.go 97-100: if err == nil { ...; return }
SilentDone(err) == err = "none"

\* refresh.go 189: RoleSessionName: &s.Profile
RestoreSessionName(s) == s.Profile

\* refresh.go 152, 193: the restore reads an MFA code
NeedsCode(s) == IsMfaSession(s) \/ s.MfaArn # ""

\* refresh.go 105-232: the interactive restore of s; silent, calls and out
\* are what the silent attempt before it left
Restore(file, seq, t, s, secret, in, silent, calls, out) ==
    LET region == IF s.Region = "" THEN DefaultRegion ELSE s.Region
        duration == IF s.Duration < MinDuration THEN DefaultDuration ELSE s.Duration
        asked == IF NeedsCode(s) THEN <<Prompt("mfa", s.Profile, in.code)>> ELSE <<>>
        out1 == Append(out, Out("Restoring session", s.Profile))
        Request(src) ==
            LET call == IF IsMfaSession(s)
                        THEN StsCall("GetSessionToken", s.Profile, "", "", duration, s.MfaArn,
                                     in.code, region, src)
                        ELSE StsCall("AssumeRole", s.Profile, s.RoleArn,
                                     RestoreSessionName(s), duration, s.MfaArn,
                                     IF s.MfaArn # "" THEN in.code ELSE "", region, src)
                Save(saved) ==
                    Smart(saved.err, silent, saved.file, seq + 1, asked, Append(calls, call),
                          Append(out1, IF saved.err # "none"
                                       THEN Out("Failed to save refreshed session", saved.err)
                                       ELSE Out("refreshed/restored successfully", s.Profile)))
            IN IF src.err # "none"
               THEN Smart("Failed to load source config", silent, file, seq, <<>>, calls,
                          Append(out1, Out("Failed to load source config", s.SourceProfile)))
               ELSE IF NeedsCode(s) /\ in.code = ReadFailure
               THEN Smart(ReadFailure, silent, file, seq, asked, calls,
                          Append(out1, Out(ReadFailure, "")))
               ELSE IF NeedsCode(s) /\ in.code = ""
               THEN Smart("no MFA code", silent, file, seq, asked, calls, out1)
               ELSE IF ~StsAccepts(call, src, t, seq, in.stsOk)
               THEN Smart("STS request failed", silent, file, seq, asked, Append(calls, call),
                          Append(out1, Out(IF IsMfaSession(s) THEN "MFA login failed"
                                           ELSE "Failed to assume role", "")))
               ELSE Save(SaveCredentials(file, s.Profile,
                                         NewSession(s, Issued(seq, t, duration),
                                                    IF IsMfaSession(s) THEN MfaMarker
                                                    ELSE s.RoleArn,
                                                    region, duration),
                                         secret))
    IN Request(SourceOf(LoadCredentials(file, s.SourceProfile, secret), s.SourceProfile))

\* refresh.go 84-233
SmartRefresh(file, seq, t, profile, secret, force, in) ==
    LET attempt == <<Out("Attempting silent refresh", profile)>>
        Silent(s, silent) ==
            IF SilentDone(silent.err)
            THEN Smart("none", silent.err, silent.file, silent.seq, <<>>, silent.calls,
                       Append(attempt, Out("refreshed silently", profile)))
            ELSE Restore(silent.file, silent.seq, t, s, secret, in, silent.err, silent.calls,
                         Append(attempt, Out("Silent refresh failed", silent.err)))
        Found(loaded) ==
            IF loaded.err # "none"
            THEN Smart("Profile not found", "not tried", file, seq, <<>>, <<>>,
                       <<Out("Profile not found", profile)>>)
            ELSE IF ~SilentEligible(loaded.s, loaded.s.Expiration < t, force)
            THEN Restore(file, seq, t, loaded.s, secret, in, "not tried", <<>>, <<>>)
            ELSE Silent(loaded.s, PerformRefresh(file, seq, t, loaded.s, secret,
                                                 loaded.s.Region, in.silentOk))
    IN Found(LoadCredentials(file, profile, secret))

\* the inputs a smartRefresh of profile can consult, the others held at
\* their first value: no silentOk without a silent attempt, no code without
\* a prompt for it, no answer of STS to a request that is never sent
NoSmartInput == [silentOk |-> FALSE, stsOk |-> FALSE, code |-> ""]

SmartInputsFor(file, t, profile, secret, force) ==
    LET For(loaded) ==
            IF loaded.err # "none" THEN {NoSmartInput}
            ELSE {in \in SmartInputs :
                    /\ ~SilentEligible(loaded.s, loaded.s.Expiration < t, force) => ~in.silentOk
                    /\ ~NeedsCode(loaded.s) => in.code = ""
                    /\ (NeedsCode(loaded.s) /\ in.code \in {"", ReadFailure}) => ~in.stsOk}
    IN For(LoadCredentials(file, profile, secret))

----------------------------------------------------------------------------
(* cmd/refresh.go: one iteration of the loop of refreshAllSessions *)

\* what the environment holds for one iteration: the answer to a y/n
\* question, the inputs of a smartRefresh, and whether STS answers the
\* silent refresh of the role and its retry
StepInputs == [answer : Answers, smart : SmartInputs, firstOk : BOOLEAN, retryOk : BOOLEAN]

Step(outcome, silent, file, seq, asked, calls, out, restored) ==
    [outcome |-> outcome, silent |-> silent, file |-> file, seq |-> seq, asked |-> asked,
     calls |-> calls, out |-> out, restoredSources |-> restored]

\* restoredSources[profile] = value
Mark(restored, profile, value) ==
    [q \in (DOMAIN restored) \cup {profile} |-> IF q = profile THEN value ELSE restored[q]]

\* refresh.go 280, 306: response == "y" || response == "Y"
Yes(response) == response \in {"y", "Y"}

\* refresh.go 292-299: the role's source is a stored session, expired and
\* not yet offered for restore
OffersSourceRestore(file, t, s, secret, restored) ==
    LET Expired(source) == source.err = "none" /\ t > source.s.Expiration IN
    /\ s.SourceProfile # ""
    /\ t > s.Expiration
    /\ Expired(LoadCredentials(file, s.SourceProfile, secret))
    /\ s.SourceProfile \notin DOMAIN restored

\* refresh.go 304-319: the iteration once the user agreed to restore the
\* source: src is what smartRefresh(s.SourceProfile) did, and the silent
\* refresh of s is tried again
AfterSourceRestore(t, s, secret, restored, in, first, src) ==
    LET question == Prompt("restore", s.SourceProfile, in.answer)
        Retry(retry) ==
            Step(IF retry.err = "none" THEN "refreshed" ELSE "failed", first.err,
                 retry.file, retry.seq, <<question>> \o src.asked,
                 first.calls \o src.calls \o retry.calls,
                 Append(src.out,
                        IF retry.err = "none"
                        THEN Out("Refreshed after source restore", s.Profile)
                        ELSE Out("Failed to refresh even after source restore", retry.err)),
                 Mark(restored, s.SourceProfile, TRUE))
    IN IF src.err = ReadFailure
       THEN Step(ReadFailure, first.err, src.file, src.seq, <<question>> \o src.asked,
                 first.calls \o src.calls, src.out, Mark(restored, s.SourceProfile, TRUE))
       ELSE Retry(PerformRefresh(src.file, src.seq, t, s, secret, s.Region, in.retryOk))

\* refresh.go 285-339: the iteration for a role session, first being what
\* the silent refresh of s did
AfterSilent(t, s, secret, restored, in, first) ==
    IF first.err = "none"
    THEN Step("refreshed", first.err, first.file, first.seq, <<>>, first.calls,
              <<Out("Refreshed silently", s.Profile)>>, restored)
    ELSE IF OffersSourceRestore(first.file, t, s, secret, restored)
    THEN IF Yes(in.answer)
         THEN AfterSourceRestore(t, s, secret, restored, in, first,
                                 SmartRefresh(first.file, first.seq, t, s.SourceProfile,
                                              secret, FALSE, in.smart))
         ELSE Step("skipped", first.err, first.file, first.seq,
                   <<Prompt("restore", s.SourceProfile, in.answer)>>, first.calls,
                   <<Out("Skipping (source expired)", s.Profile)>>,
                   Mark(restored, s.SourceProfile, FALSE))
    ELSE IF t > s.Expiration
    THEN Step("skipped", first.err, first.file, first.seq, <<>>, first.calls,
              <<Out("Skipping (expired, needs manual refresh)", s.Profile)>>, restored)
    ELSE Step("failed", first.err, first.file, first.seq, <<>>, first.calls,
              <<Out("Failed to refresh", first.err)>>, restored)

\* refresh.go 261-340: the loop body for the listed session s, with the
\* restoredSources map as the iterations before left it
LoopBody(file, seq, t, s, secret, restored, in) ==
    LET question == Prompt("restore", s.Profile, in.answer)
        Own(own) ==
            Step(IF own.err = ReadFailure THEN ReadFailure ELSE "refreshed", "not tried",
                 own.file, own.seq, <<question>> \o own.asked, own.calls, own.out,
                 Mark(restored, s.Profile, TRUE))
    IN IF IsMfaSession(s)
       THEN IF ~(t > s.Expiration)
            THEN Step("active", "not tried", file, seq, <<>>, <<>>,
                      <<Out("MFA Session is still active", s.Profile)>>, restored)
            ELSE IF Yes(in.answer)
            THEN Own(SmartRefresh(file, seq, t, s.Profile, secret, FALSE, in.smart))
            ELSE Step("skipped", "not tried", file, seq, <<question>>, <<>>,
                      <<Out("Skipping", s.Profile)>>, restored)
       ELSE AfterSilent(t, s, secret, restored, in,
                        PerformRefresh(file, seq, t, s, secret, s.Region, in.firstOk))

\* the inputs one iteration for s can consult, the others held at their
\* first value
StepInputsFor(file, seq, t, s, secret, restored) ==
    {in \in StepInputs :
        LET subject == IF IsMfaSession(s) THEN s.Profile ELSE s.SourceProfile
            For(first) ==
                LET asks == IF IsMfaSession(s) THEN t > s.Expiration
                            ELSE first.err # "none"
                                 /\ OffersSourceRestore(first.file, t, s, secret, restored)
                IN /\ IsMfaSession(s) => ~in.firstOk
                   /\ (IsMfaSession(s) \/ ~asks \/ ~Yes(in.answer)) => ~in.retryOk
                   /\ ~asks => in.answer = "n"
                   /\ IF asks /\ Yes(in.answer)
                      THEN in.smart \in SmartInputsFor(first.file, t, subject, secret, FALSE)
                      ELSE in.smart = NoSmartInput
        IN For(PerformRefresh(file, seq, t, s, secret, s.Region, in.firstOk))}

\* refresh.go 250-255: the orders sort.Slice may leave the listed sessions
\* in: every MFA session before every other session
UnsortedOrders(sessions) == Orders(sessions)

MfaFirst(sessions) ==
    {q \in Orders(sessions) :
        \A i, j \in 1..Len(q) : (i < j) => ~(IsMfaSession(q[j]) /\ ~IsMfaSession(q[i]))}

----------------------------------------------------------------------------
(* cmd/list.go: one check of the daemon *)

\* the test of list.go 167-177 alone: MFA sessions and sessions without a
\* source are tried as well
DaemonEligibleByTime(s, t) ==
    /\ ~(s.Expiration - t >= DaemonWindowMs)
    /\ ~(t > s.Expiration)

\* list.go 167-187: the sessions the daemon tries to refresh
DaemonEligible(s, t) ==
    /\ ~(s.Expiration - t >= DaemonWindowMs)
    /\ ~(t > s.Expiration)
    /\ ~IsMfaSession(s)
    /\ s.SourceProfile # ""

\* list.go 165-207: the loop over the listed sessions from position i on;
\* STS answers the refresh of the profiles in okSet
RECURSIVE DaemonLoop(_, _, _, _, _, _, _, _)
DaemonLoop(order, i, file, seq, t, secret, okSet, acc) ==
    LET s == order[i]
        region == IF s.Region = "" THEN DefaultRegion ELSE s.Region
        Then(r) ==
            DaemonLoop(order, i + 1, r.file, r.seq, t, secret, okSet,
                       [calls |-> acc.calls \o r.calls,
                        out |-> Append(acc.out,
                                       IF r.err = "none"
                                       THEN Out("Successfully refreshed", s.Profile)
                                       ELSE Out("Refresh failed", s.Profile))])
    IN IF i > Len(order)
       THEN [file |-> file, seq |-> seq, calls |-> acc.calls, out |-> acc.out]
       ELSE IF ~DaemonEligible(s, t)
       THEN DaemonLoop(order, i + 1, file, seq, t, secret, okSet, acc)
       ELSE Then(PerformRefresh(file, seq, t, s, secret, region, s.Profile \in okSet))

\* list.go 150-213: runRefreshCheck
RunRefreshCheck(file, seq, t, secretOk, order, okSet) ==
    LET all == ListAllSessions(file, Secret) IN
    IF ~secretOk
    THEN [file |-> file, seq |-> seq, calls |-> <<>>,
          out |-> <<Out("Error: encryption secret required", "")>>]
    ELSE IF all.err # "none"
    THEN [file |-> file, seq |-> seq, calls |-> <<>>,
          out |-> <<Out("Error: failed to list sessions", all.err)>>]
    ELSE DaemonLoop(order, 1, file, seq, t, Secret, okSet,
                    [calls |-> <<>>, out |-> <<Out("Checking sessions", "")>>])

----------------------------------------------------------------------------
(* cmd/login.go and cmd/mfa-login.go *)

\* login.go 639: sessionName := profile
LoginSessionName(profile) == profile

\* the credentials GetSessionToken returned, as the signer of later calls
MfaSource(name, creds) ==
    [err |-> "none", kind |-> "mfa", name |-> name, key |-> creds.AccessKey,
     exp |-> creds.Expiration]

\* login.go 665-673: the session as login stores it
LoginSession(profile, creds, roleArn, source) ==
    [ZeroSession EXCEPT !.Profile = profile, !.AccessKey = creds.AccessKey,
                        !.SecretKey = creds.SecretKey, !.SessionToken = creds.SessionToken,
                        !.Expiration = creds.Expiration, !.RoleArn = roleArn,
                        !.SourceProfile = source]

\* login.go 490-697, once source, profile and role are known
LoginRun(file, seq, t, source, profile, roleArn, mfaArn, secretOk, code, mfaOk, roleOk) ==
    LET asked == IF mfaArn # "" THEN <<Prompt("mfa", profile, code)>> ELSE <<>>
        seq1 == IF mfaArn # "" THEN seq + 1 ELSE seq
        Run(src) ==
            LET mfaCall == StsCall("GetSessionToken", profile, "", "", LoginDuration, mfaArn,
                                   code, DefaultRegion, src)
                signer == IF mfaArn # "" THEN MfaSource(source, Issued(seq, t, LoginDuration))
                          ELSE src
                call == StsCall("AssumeRole", profile, roleArn, LoginSessionName(profile),
                                LoginDuration, "", "", DefaultRegion, signer)
                calls == IF mfaArn # "" THEN <<mfaCall, call>> ELSE <<call>>
                Save(saved) ==
                    Smart(saved.err, "not tried", saved.file, seq1 + 1, asked, calls,
                          <<IF saved.err # "none"
                            THEN Out("Failed to save encrypted session", saved.err)
                            ELSE Out("Encrypted session stored as", profile)>>)
            IN IF src.err # "none"
               THEN Smart("Profile not found", "not tried", file, seq, <<>>, <<>>,
                          <<Out("Profile not found", source)>>)
               ELSE IF mfaArn # "" /\ code = ReadFailure
               THEN Smart(ReadFailure, "not tried", file, seq, asked, <<>>,
                          <<Out(ReadFailure, "")>>)
               ELSE IF mfaArn # "" /\ ~StsAccepts(mfaCall, src, t, seq, mfaOk)
               THEN Smart("MFA authentication failed", "not tried", file, seq, asked,
                          <<mfaCall>>, <<Out("MFA authentication failed", "")>>)
               ELSE IF ~StsAccepts(call, signer, t, seq1, roleOk)
               THEN Smart("Failed to assume role", "not tried", file, seq1, asked, calls,
                          <<Out("Failed to assume role", "")>>)
               ELSE IF ~secretOk
               THEN Smart("none", "not tried", file, seq1 + 1, asked, calls,
                          <<Out("Session stored as", profile)>>)
                        @@ [plain |-> LoginSession(profile, Issued(seq1, t, LoginDuration),
                                                   roleArn, source)]
               ELSE Save(SaveCredentials(file, profile,
                                         LoginSession(profile, Issued(seq1, t, LoginDuration),
                                                      roleArn, source),
                                         Secret))
    IN Run(IF secretOk THEN SourceOf(LoadCredentials(file, source, Secret), source)
           ELSE SharedSource(source))

\* mfa-login.go 162-351, once source, profile and device are known
MfaLoginRun(file, seq, t, source, profile, device, secretOk, code, ok) ==
    LET src == SharedSource(source)
        asked == <<Prompt("mfa", profile, code)>>
        call == StsCall("GetSessionToken", profile, "", "", MfaLoginDuration, device, code,
                        DefaultRegion, src)
        Save(saved) ==
            Smart(saved.err, "not tried", saved.file, seq + 1, asked, <<call>>,
                  <<IF saved.err # "none"
                    THEN Out("Failed to save encrypted session", saved.err)
                    ELSE Out("MFA session stored as", profile)>>)
    IN IF src.err # "none"
       THEN Smart("Profile not found", "not tried", file, seq, <<>>, <<>>,
                  <<Out("Profile not found", source)>>)
       ELSE IF code = ReadFailure
       THEN Smart(ReadFailure, "not tried", file, seq, asked, <<>>, <<Out(ReadFailure, "")>>)
       ELSE IF ~StsAccepts(call, src, t, seq, ok)
       THEN Smart("MFA authentication failed", "not tried", file, seq, asked, <<call>>,
                  <<Out("MFA authentication failed", "")>>)
       ELSE IF ~secretOk
       THEN Smart("Encryption secret required", "not tried", file, seq + 1, asked, <<call>>,
                  <<Out("Encryption secret required", "")>>)
       ELSE Save(SaveCredentials(file, profile,
                                 LoginSession(profile, Issued(seq, t, MfaLoginDuration),
                                              MfaMarker, source),
                                 Secret))

----------------------------------------------------------------------------
(* The session model: login, mfa-login, refresh, refresh --all and the     *)
(* daemon run on a store of sessions while the clock advances.             *)

\* an expiration before the model starts, and one a clock step after it
Past == 0 - TickMs
Soon == TickMs

\* the stores the model starts from: sessions that earlier logins left, one
\* with the region and the duration of the record format set, and one with a
\* record that was stored under another secret
InitStores ==
    {StoreOf(sessions) : sessions \in
        {{},
         {MfaSession("m", 11, Past, "default"), RoleSession("a", 12, Past, "m"),
          RoleSession("b", 13, Past, "m")},
         {[MfaSession("m", 11, Past, "default") EXCEPT !.MfaArn = "",
                                                        !.Duration = MfaLoginDuration],
          RoleSession("a", 12, Soon, "m")},
         {MfaSession("m", 11, Soon, "default"), RoleSession("a", 12, Soon, "m")},
         {RoleSession("a", 12, Soon, "default")},
         {[RoleSession("a", 12, Past, "default") EXCEPT !.MfaArn = DeviceU],
          RoleSession("b", 13, Past, "a")},
         {RoleSession("a", 12, Soon, "old")},
         {RoleSession("a", 12, Past, "default"), RoleSession("b", 13, Soon, "a")}}}
    \cup {StoreOf({[RoleSession("a", 12, Soon, "default") EXCEPT !.Region = "us-east-1",
                                                                 !.Duration = 7200]})}
    \cup {SaveCredentials(StoreOf({RoleSession("a", 12, Soon, "default")}), "default",
                          LoginSession("default", Issued(12, 0, LoginDuration), RoleR, ""),
                          "K2").file}

LoginSources == {"default", "m"}
LoginProfiles == {"b"}

Did(op, profile, interactive, force, s, silent, asked, calls, out, err) ==
    [op |-> op, profile |-> profile, interactive |-> interactive, force |-> force, s |-> s,
     silent |-> silent, asked |-> asked, calls |-> calls, out |-> out, err |-> err,
     pre |-> storeFile, at |-> now]

\* the shell waits for a command: nothing of the last one is on the terminal
AtPrompt ==
    [op |-> "none", profile |-> "", interactive |-> FALSE, force |-> FALSE, s |-> ZeroSession,
     silent |-> "not tried", asked |-> <<>>, calls |-> <<>>, out |-> <<>>, err |-> "none",
     pre |-> AbsentFile, at |-> 0]

Init ==
    /\ storeFile \in InitStores
    /\ awsFile = <<>>
    /\ now = 0
    /\ stsSeq = 0
    /\ prompts = <<>>
    /\ stsCalls = <<>>
    /\ batch = IdleBatch
    /\ daemon = NoDaemon
    /\ dotFiles = NoDotFiles
    /\ inflight = NoInflight
    /\ last = AtPrompt

\* the command has returned and its output has been read: the shell
\* prompts again
Return ==
    /\ last # AtPrompt
    /\ batch.pc # "loop"
    /\ last' = AtPrompt
    /\ prompts' = <<>>
    /\ stsCalls' = <<>>
    /\ UNCHANGED <<storeFile, awsFile, now, stsSeq, batch, daemon, dotFiles, inflight>>

\* time passes while the shell waits and while refresh --all runs
Pass ==
    /\ last = AtPrompt \/ batch.pc = "loop"
    /\ Tick

\* the effect of a foreground command other than refresh --all
Command(op, profile, interactive, force, s, r) ==
    /\ last = AtPrompt
    /\ storeFile' = r.file
    /\ stsSeq' = r.seq
    /\ prompts' = r.asked
    /\ stsCalls' = r.calls
    /\ last' = Did(op, profile, interactive, force, s, r.silent, r.asked, r.calls, r.out, r.err)
    /\ dotFiles' = IF "plain" \in DOMAIN r
                   THEN [dotFiles EXCEPT !.sessions = PutEntry(@, profile, r.plain)]
                   ELSE dotFiles
    /\ UNCHANGED <<awsFile, now, batch, daemon, inflight>>

Refused(err) == Smart(err, "not tried", storeFile, stsSeq, <<>>, <<>>, <<Out(err, "")>>)

\* refresh.go 26-82: refresh [profile], the profile named on the command
\* line or picked from the list of stored sessions
RefreshOne ==
    \E force \in BOOLEAN :
          \/ Command("refresh", "", FALSE, force, ZeroSession,
                     Refused("Encryption secret required"))
          \/ \E profile \in Profiles :
                \E in \in SmartInputsFor(storeFile, now, profile, Secret, force) :
                   Command("refresh", profile, FALSE, force,
                           LoadCredentials(storeFile, profile, Secret).s,
                           SmartRefresh(storeFile, stsSeq, now, profile, Secret, force, in))

\* the inputs a login can consult: flags, the secret, the MFA code and the
\* answers of STS
LoginInputs ==
    {in \in [source : LoginSources, profile : LoginProfiles, mfaArn : {"", DeviceU},
             secretOk : BOOLEAN, code : MfaCodes, mfaOk : BOOLEAN, roleOk : BOOLEAN] :
        /\ in.mfaArn = "" => (in.code = "" /\ ~in.mfaOk)
        /\ in.code \in {"", ReadFailure} => ~in.mfaOk
        /\ (in.mfaArn # "" /\ ~in.mfaOk) => ~in.roleOk
        /\ ~in.secretOk => (in.mfaArn = "" /\ in.roleOk)}

\* login.go 423-710
Login ==
    \E in \in LoginInputs :
          Command("login", in.profile, FALSE, FALSE, ZeroSession,
                  LoginRun(storeFile, stsSeq, now, in.source, in.profile, RoleR, in.mfaArn,
                           in.secretOk, in.code, in.mfaOk, in.roleOk))

MfaLoginInputs ==
    {in \in [source : {"default", "old"}, secretOk : BOOLEAN, code : MfaCodes, ok : BOOLEAN] :
        in.code \in {"", ReadFailure} => ~in.ok}

\* mfa-login.go 162-351
MfaLogin ==
    \E in \in MfaLoginInputs :
          Command("mfa-login", "m", FALSE, FALSE, ZeroSession,
                  MfaLoginRun(storeFile, stsSeq, now, in.source, "m", DeviceU, in.secretOk,
                              in.code, in.ok))

\* what one check of the daemon leaves: the store and its log
Checked(r, err) ==
    /\ storeFile' = r.file
    /\ stsSeq' = r.seq
    /\ last' = Did("daemon", "", FALSE, FALSE, ZeroSession, "not tried", <<>>, r.calls,
                   r.out, err)
    /\ UNCHANGED <<awsFile, now, prompts, stsCalls, batch, daemon, dotFiles, inflight>>

\* list.go 144: one runRefreshCheck of the running daemon
DaemonTick ==
    /\ last = AtPrompt
    /\ LET listed == ListAllSessions(storeFile, Secret).sessions
           tried == {s.Profile : s \in {x \in listed : DaemonEligible(x, now)}}
       IN \/ \E order \in Orders(listed), okSet \in SUBSET tried :
               Checked(RunRefreshCheck(storeFile, stsSeq, now, TRUE, order, okSet), "none")
          \/ Checked(RunRefreshCheck(storeFile, stsSeq, now, FALSE, <<>>, {}),
                     "Encryption secret required")

\* refresh.go 32-41, 235-259: refresh --all up to the loop
BatchStart ==
    /\ last = AtPrompt
    /\ \E secretOk \in BOOLEAN :
          LET all == ListAllSessions(storeFile, Secret)
              err == IF ~secretOk THEN "Encryption secret required"
                     ELSE IF all.err # "none" THEN "Failed to load sessions"
                     ELSE IF all.sessions = {} THEN "No sessions found"
                     ELSE "none"
          IN /\ IF err # "none"
                THEN batch' = IdleBatch
                ELSE \E order \in MfaFirst(all.sessions) :
                        batch' = [IdleBatch EXCEPT !.pc = "loop", !.queue = order,
                                                  !.began = storeFile]
             /\ last' = Did("refresh --all", "", FALSE, FALSE, ZeroSession, "not tried",
                            <<>>, <<>>, <<Out("Intelligent batch refresh starting", "")>>, err)
    /\ prompts' = <<>>
    /\ stsCalls' = <<>>
    /\ UNCHANGED <<storeFile, awsFile, now, stsSeq, daemon, dotFiles, inflight>>

\* what one iteration for s leaves: log.Fatalf in readMFACode ends the
\* process, any other outcome is counted and the loop goes on
Iterated(s, r) ==
    /\ storeFile' = r.file
    /\ stsSeq' = r.seq
    /\ prompts' = prompts \o r.asked
    /\ stsCalls' = stsCalls \o r.calls
    /\ batch' = IF r.outcome = ReadFailure
                THEN IdleBatch
                ELSE [batch EXCEPT
                        !.queue = Tail(@),
                        !.refreshed = IF r.outcome = "refreshed" THEN @ + 1 ELSE @,
                        !.skipped = IF r.outcome = "skipped" THEN @ + 1 ELSE @,
                        !.failed = IF r.outcome = "failed" THEN @ + 1 ELSE @,
                        !.restoredSources = r.restoredSources]
    /\ last' = Did("refresh --all step", s.Profile, FALSE, FALSE, s, r.silent, r.asked,
                   r.calls, r.out, r.outcome)
    /\ UNCHANGED <<awsFile, now, daemon, dotFiles, inflight>>

\* refresh.go 261-340: one iteration of the loop
BatchStep ==
    /\ batch.pc = "loop"
    /\ batch.queue # <<>>
    /\ \E in \in StepInputsFor(storeFile, stsSeq, now, Head(batch.queue), Secret,
                                batch.restoredSources) :
          Iterated(Head(batch.queue),
                   LoopBody(storeFile, stsSeq, now, Head(batch.queue), Secret,
                            batch.restoredSources, in))

\* refresh.go 342: the counts the summary line prints, with the store the
\* batch found when it began
Summary(counts) ==
    [refreshed |-> counts.refreshed, skipped |-> counts.skipped, failed |-> counts.failed,
     began |-> counts.began]

\* refresh.go 344-353: the automatic sync
AutoSynced(r) ==
    /\ awsFile' = r.lines
    /\ last' = Did("refresh --all end", "", FALSE, FALSE, ZeroSession, "not tried", <<>>, <<>>,
                   <<Out("Summary", ""), Out("Automatically syncing", r.err)>>, "none")
               @@ Summary(batch)

\* refresh.go 342-354: the summary and the automatic sync
BatchEnd ==
    /\ batch.pc = "loop"
    /\ batch.queue = <<>>
    /\ batch' = IdleBatch
    /\ IF batch.refreshed > 0
       THEN \E order \in Orders(ListAllSessions(storeFile, Secret).sessions) :
               AutoSynced(SyncAllToAWS(storeFile, awsFile, Secret, now, order))
       ELSE /\ UNCHANGED awsFile
            /\ last' = Did("refresh --all end", "", FALSE, FALSE, ZeroSession, "not tried",
                           <<>>, <<>>, <<Out("Summary", "")>>, "none") @@ Summary(batch)
    /\ UNCHANGED <<storeFile, now, stsSeq, prompts, stsCalls, daemon, dotFiles, inflight>>

Next ==
    \/ Pass
    \/ Return
    \/ RefreshOne
    \/ BatchStart
    \/ BatchStep
    \/ BatchEnd
    \/ Login
    \/ MfaLogin
    \/ DaemonTick

Spec == Init /\ [][Next]_vars

----------------------------------------------------------------------------
(* Properties of refresh, refresh --all, login and the daemon               *)

\* C1: in refresh --all the user is asked at most once per source session
\* whether to restore it: no two of the restore questions of one run are
\* about the same session
C1_OnePromptPerSource ==
    \A i, j \in 1..Len(prompts) :
        (/\ prompts[i].kind = "restore"
         /\ prompts[j].kind = "restore"
         /\ prompts[i].about = prompts[j].about) => i = j

\* C7: every AssumeRole request of the last command and of the running
\* refresh --all carries the name of the profile it is issued for as its
\* RoleSessionName, and login and refresh of P issue requests for P only
C7_RoleSessionNameIsProfile ==
    /\ \A i \in 1..Len(last.calls) :
          last.calls[i].op = "AssumeRole" =>
             /\ last.calls[i].target \in Profiles
             /\ last.calls[i].RoleSessionName = last.calls[i].target
    /\ \A i \in 1..Len(stsCalls) :
          stsCalls[i].op = "AssumeRole" => stsCalls[i].RoleSessionName = stsCalls[i].target
    /\ last.op \in {"refresh", "login"} =>
          \A i \in 1..Len(last.calls) : last.calls[i].target = last.profile

\* an iteration of refresh --all renewed a role session by AssumeRole
C7_Witness ==
    /\ last.op = "refresh --all step"
    /\ last.err = "refreshed"
    /\ last.s.RoleArn = RoleR
    /\ \E i \in 1..Len(last.calls) :
          /\ last.calls[i].op = "AssumeRole"
          /\ last.calls[i].target = last.s.Profile
    /\ LoadCredentials(storeFile, last.s.Profile, Secret).s.AccessKey # last.s.AccessKey

\* C8: a record with role_arn "MFA-Session" that holds other credentials
\* after a command than before it got them from a GetSessionToken request
\* made with the MFA code the command prompted for; PerformRefresh refuses
\* such a record and the daemon does not pick it
C8_MfaRecordNeedsCode ==
    \A p \in Profiles :
        LET before == LoadCredentials(last.pre, p, Secret)
            after == LoadCredentials(storeFile, p, Secret)
        IN /\ (/\ last.op # "none"
               /\ before.err = "none"
               /\ before.s.RoleArn = MfaMarker
               /\ after.err = "none"
               /\ after.s.RoleArn = MfaMarker
               /\ \/ after.s.AccessKey # before.s.AccessKey
                  \/ after.s.SecretKey # before.s.SecretKey
                  \/ after.s.SessionToken # before.s.SessionToken
                  \/ after.s.Expiration # before.s.Expiration)
              => /\ last.op \in {"refresh", "refresh --all step", "mfa-login"}
                 /\ \E i \in 1..Len(last.asked) :
                       /\ last.asked[i].kind = "mfa"
                       /\ last.asked[i].about = p
                       /\ last.asked[i].answer \notin {"", ReadFailure}
                       /\ \E k \in 1..Len(last.calls) :
                             /\ last.calls[k].op = "GetSessionToken"
                             /\ last.calls[k].target = p
                             /\ last.calls[k].SerialNumber # ""
                             /\ last.calls[k].TokenCode = last.asked[i].answer
           /\ (after.err = "none" /\ after.s.RoleArn = MfaMarker)
              => /\ PerformRefresh(storeFile, stsSeq, now, after.s, Secret, after.s.Region,
                                   TRUE).err = "MFA sessions cannot be silently refreshed"
                 /\ ~DaemonEligible(after.s, now)

\* refresh of an expired MFA session stored new credentials for it
C8_Witness ==
    /\ last.op = "refresh"
    /\ last.s.RoleArn = MfaMarker
    /\ last.err = "none"
    /\ LoadCredentials(storeFile, last.profile, Secret).s.RoleArn = MfaMarker
    /\ LoadCredentials(storeFile, last.profile, Secret).s.AccessKey # last.s.AccessKey

\* the case of C9: refresh of a stored profile that is unexpired, not forced,
\* not an MFA session and has a source profile
C9_Case ==
    /\ last.op = "refresh"
    /\ last.profile \in Profiles
    /\ LoadCredentials(last.pre, last.profile, Secret).err = "none"
    /\ ~(last.s.Expiration < last.at)
    /\ ~last.force
    /\ last.s.RoleArn # MfaMarker
    /\ last.s.SourceProfile # ""

\* C9: in that case the command first attempts the silent refresh, one
\* AssumeRole of RefreshDuration seconds; when it succeeds the record holds
\* the credentials STS issued, everything else of it is kept, and the user
\* was asked nothing
C9_SilentPathFirst ==
    C9_Case =>
        /\ last.out # <<>>
        /\ last.out[1] = Out("Attempting silent refresh", last.profile)
        /\ last.silent # "not tried"
        /\ last.silent = "none" =>
              /\ last.err = "none"
              /\ last.asked = <<>>
              /\ prompts = <<>>
              /\ Len(last.calls) = 1
              /\ last.calls[1].op = "AssumeRole"
              /\ last.calls[1].DurationSeconds = RefreshDuration
              /\ LoadCredentials(storeFile, last.profile, Secret).err = "none"
              /\ SameSession(LoadCredentials(storeFile, last.profile, Secret).s,
                             [last.s EXCEPT
                                !.AccessKey = AccessKeyOf(stsSeq),
                                !.SecretKey = SecretKeyOf(stsSeq),
                                !.SessionToken = SessionTokenOf(stsSeq),
                                !.Expiration = last.at + RefreshDuration * MsPerSec,
                                !.SessionName = ""])

\* a silent refresh of such a profile succeeded
C9_Witness ==
    /\ C9_Case
    /\ last.silent = "none"
    /\ LoadCredentials(storeFile, last.profile, Secret).s.AccessKey # last.s.AccessKey

\* the errors PerformRefresh returns
SilentErrors ==
    {"source session has expired", "failed to load source", "AssumeRole failed"}

\* C10: when the silent refresh of refresh P fails, the command prints the
\* error PerformRefresh returned and goes on to the interactive restore of
\* P, whose requests are for P
C10_SilentFailureFallsThrough ==
    (last.op = "refresh" /\ last.silent \notin {"not tried", "none"}) =>
        /\ last.silent \in SilentErrors
        /\ Len(last.out) >= 3
        /\ last.out[1] = Out("Attempting silent refresh", last.profile)
        /\ last.out[2] = Out("Silent refresh failed", last.silent)
        /\ last.out[3] = Out("Restoring session", last.profile)
        /\ last.err \in {"none", "Failed to load source config", ReadFailure, "no MFA code",
                         "STS request failed"}
        /\ last.err \in {"none", "STS request failed"} =>
              /\ last.calls # <<>>
              /\ last.calls[Len(last.calls)].target = last.profile
              /\ last.calls[Len(last.calls)].DurationSeconds =
                    IF last.s.Duration < MinDuration THEN DefaultDuration ELSE last.s.Duration

\* the silent refresh failed at STS and the interactive restore that
\* followed renewed the session
C10_Witness ==
    /\ last.op = "refresh"
    /\ last.silent = "AssumeRole failed"
    /\ last.err = "none"
    /\ Len(last.calls) = 2
    /\ LoadCredentials(storeFile, last.profile, Secret).s.AccessKey # last.s.AccessKey

----------------------------------------------------------------------------
(* Properties of the batch refresh                                          *)

\* the restore questions of the running refresh --all that were put before
\* the last iteration
AskedBefore == SubSeq(prompts, 1, Len(prompts) - Len(last.asked))

\* the last iteration was for a role session whose silent refresh failed
\* while its source was a stored, expired session nobody had asked about
C11_Case ==
    /\ last.op = "refresh --all step"
    /\ last.s.RoleArn # MfaMarker
    /\ last.silent \notin {"none", "not tried"}
    /\ last.s.SourceProfile # ""
    /\ LoadCredentials(last.pre, last.s.SourceProfile, Secret).err = "none"
    /\ LoadCredentials(last.pre, last.s.SourceProfile, Secret).s.Expiration < last.at
    /\ \A i \in 1..Len(AskedBefore) :
          ~(AskedBefore[i].kind = "restore" /\ AskedBefore[i].about = last.s.SourceProfile)

\* C11: in that case the iteration asks whether to restore the source, and
\* on "yes" it runs the restore of the source and tries the silent refresh
\* of the role a second time
C11_SourceRestoreOffered ==
    C11_Case =>
        /\ last.asked # <<>>
        /\ last.asked[1].kind = "restore"
        /\ last.asked[1].about = last.s.SourceProfile
        /\ Yes(last.asked[1].answer) =>
              /\ \E i \in 1..Len(last.out) :
                    last.out[i] = Out("Restoring session", last.s.SourceProfile)
              /\ last.err \in {"refreshed", "failed", ReadFailure}

\* what refresh --all prints when a refresh or a restore did not go through
FailureMessages ==
    {"MFA login failed", "Failed to assume role", "Failed to save refreshed session",
     "Failed to load source config", ReadFailure, "Failed to refresh",
     "Failed to refresh even after source restore"}

\* C12: an iteration of refresh --all in which a refresh or a restore failed
\* leaves the loop running on the rest of the sessions and counts the
\* session as failed
C12_FailureCountedNotFatal ==
    (/\ last.op = "refresh --all step"
     /\ \E i \in 1..Len(last.out) : last.out[i].msg \in FailureMessages)
    => /\ batch.pc = "loop"
       /\ last.err = "failed"

\* the credentials stored for profile p differ between the two store files
Renewed(before, after, p) ==
    /\ LoadCredentials(after, p, Secret).err = "none"
    /\ \/ LoadCredentials(before, p, Secret).err # "none"
       \/ LoadCredentials(before, p, Secret).s.AccessKey
             # LoadCredentials(after, p, Secret).s.AccessKey

\* C13: when refresh --all ends, it has run the sync of the credentials
\* file if and only if some session holds other credentials than when the
\* batch began
C13_SyncIffRefreshed ==
    last.op = "refresh --all end" =>
        ((\E i \in 1..Len(last.out) : last.out[i].msg = "Automatically syncing")
         <=> (\E p \in Profiles : Renewed(last.began, last.pre, p)))

\* C14: the loop of refresh --all runs over all the sessions the store
\* lists, and when it handles a role session no MFA session is left to
\* handle
C14_MfaSessionsFirst ==
    /\ (last.op = "refresh --all" /\ batch.pc = "loop") =>
          /\ {batch.queue[i] : i \in 1..Len(batch.queue)}
                = ListAllSessions(storeFile, Secret).sessions
          /\ Len(batch.queue) = Cardinality(ListAllSessions(storeFile, Secret).sessions)
    /\ (last.op = "refresh --all step" /\ last.s.RoleArn # MfaMarker) =>
          \A i \in 1..Len(batch.queue) : batch.queue[i].RoleArn # MfaMarker

\* the loop handled a role session of a store that holds an MFA session and
\* another role session
C14_Witness ==
    /\ last.op = "refresh --all step"
    /\ last.s.RoleArn # MfaMarker
    /\ batch.pc = "loop"
    /\ batch.queue # <<>>
    /\ \E p \in Profiles : LoadCredentials(batch.began, p, Secret).s.RoleArn = MfaMarker

----------------------------------------------------------------------------
(* Properties of login and mfa-login                                        *)

\* C15: a login whose first STS request is signed with the credentials of a
\* stored session asks for no MFA code and makes AssumeRole requests only,
\* and when it succeeds the record of its profile names that session as
\* source and the role it assumed
C15_StoredSourceSkipsMfa ==
    (/\ last.op = "login"
     /\ last.calls # <<>>
     /\ last.calls[1].signer[1] = "stored")
    => /\ last.asked = <<>>
       /\ \A i \in 1..Len(last.calls) : last.calls[i].op = "AssumeRole"
       /\ last.err = "none" =>
             /\ LoadCredentials(storeFile, last.profile, Secret).err = "none"
             /\ LoadCredentials(storeFile, last.profile, Secret).s.SourceProfile
                   = last.calls[1].signer[2]
             /\ LoadCredentials(storeFile, last.profile, Secret).s.RoleArn
                   = last.calls[Len(last.calls)].RoleArn

\* the store file holds a record under the name
HasRecord(file, name) == file.kind = "json" /\ name \in DOMAIN file.data

\* the commands that looked for their source in the store with the secret
UsedSecret ==
    \/ last.op \in {"refresh", "refresh --all step", "daemon"}
    \/ /\ last.op = "login"
       /\ \E i \in 1..Len(last.out) : last.out[i].msg = "Encrypted session stored as"

\* C16: a request of such a command is signed with the credentials of the
\* external AWS profile of a name only if the store holds no record of that
\* name
C16_StoredSourcePreferred ==
    UsedSecret =>
        \A i \in 1..Len(last.calls) :
            last.calls[i].signer[1] = "shared" => ~HasRecord(last.pre, last.calls[i].signer[2])

\* C17: after a successful mfa-login the record of its profile is an MFA
\* session that names the source whose credentials signed the request and
\* the MFA device the request presented
C17_MfaLoginKeepsDevice ==
    (last.op = "mfa-login" /\ last.err = "none") =>
        /\ LoadCredentials(storeFile, last.profile, Secret).err = "none"
        /\ LoadCredentials(storeFile, last.profile, Secret).s.RoleArn = MfaMarker
        /\ LoadCredentials(storeFile, last.profile, Secret).s.SourceProfile
              = last.calls[1].signer[2]
        /\ LoadCredentials(storeFile, last.profile, Secret).s.MfaArn
              = last.calls[1].SerialNumber

----------------------------------------------------------------------------
(* Properties of the refreshed record                                       *)

\* the positions in the requests of the last command of the AssumeRole
\* requests that PerformRefresh made
SilentCalls ==
    {i \in 1..Len(last.calls) :
        /\ last.calls[i].op = "AssumeRole"
        /\ \/ last.op = "daemon"
           \/ /\ last.op = "refresh --all step"
              /\ last.s.RoleArn # MfaMarker
              /\ last.calls[i].target = last.profile
           \/ /\ last.op = "refresh"
              /\ i = 1
              /\ last.silent \in {"none", "AssumeRole failed"}}

\* the duration a refresh of a record with stored duration d is to request
EffectiveDuration(d) == IF d = 0 THEN 3600 ELSE IF d < 900 THEN 900 ELSE d

\* C18: every AssumeRole request of a silent refresh asks for the duration
\* stored in the record it refreshes, 3600 s for 0 and at least 900 s, in
\* the region stored in that record
C18_SilentUsesStoredDurationAndRegion ==
    \A i \in SilentCalls :
        /\ last.calls[i].DurationSeconds
              = EffectiveDuration(LoadCredentials(last.pre, last.calls[i].target,
                                                  Secret).s.Duration)
        /\ last.calls[i].region
              = LoadCredentials(last.pre, last.calls[i].target, Secret).s.Region

\* the profile names of the envelope in the store file
Keys(file) == IF file.kind = "json" THEN DOMAIN file.data ELSE {}

\* C19: a refresh of a stored profile that stored new credentials left the
\* profile names of the envelope as they were, and the record differs from
\* the one it replaced in the credentials and the expiration only
C19_RefreshInPlace ==
    (/\ last.op = "refresh"
     /\ last.err = "none"
     /\ last.calls # <<>>)
    => /\ Keys(storeFile) = Keys(last.pre)
       /\ LoadCredentials(storeFile, last.profile, Secret).err = "none"
       /\ SameSession(LoadCredentials(storeFile, last.profile, Secret).s,
                      [last.s EXCEPT
                         !.AccessKey = AccessKeyOf(stsSeq),
                         !.SecretKey = SecretKeyOf(stsSeq),
                         !.SessionToken = SessionTokenOf(stsSeq),
                         !.Expiration =
                            LoadCredentials(storeFile, last.profile, Secret).s.Expiration])

\* the record of the name in the store file carries the revoked mark
MarkedRevoked(file, name) == HasRecord(file, name) /\ file.data[name].Revoked = "true"

\* C20: a record that carried the revoked mark before an operation on the
\* store and is still in the store after it still carries the mark
C20_RevokedStays ==
    last.op # "none" =>
        \A p \in StoreProfiles :
            (MarkedRevoked(last.pre, p) /\ HasRecord(storeFile, p)) => MarkedRevoked(storeFile, p)

----------------------------------------------------------------------------
(* Properties of removal and listing                                        *)

\* C21: a RemoveProfile(p) that returned no error took p, which was there,
\* out of the envelope, left the entries of all other profiles as they
\* were, and removed the file when p was the only entry
C21_RemoveExactlyOne ==
    (last.op = "remove" /\ last.err = "none") =>
        /\ HasRecord(last.pre, last.profile)
        /\ Keys(storeFile) = Keys(last.pre) \ {last.profile}
        /\ \A q \in Keys(storeFile) : storeFile.data[q] = last.pre.data[q]
        /\ Keys(last.pre) = {last.profile} => storeFile = AbsentFile
        /\ storeFile.kind \in {"absent", "json"}
        /\ storeFile.kind = "json" => Keys(storeFile) # {}

\* one of two stored profiles was removed
C21_Witness ==
    /\ last.op = "remove"
    /\ last.err = "none"
    /\ Cardinality(Keys(last.pre)) = 2
    /\ Cardinality(Keys(storeFile)) = 1

\* C22: ListAllSessions under a secret fails and returns no session when
\* some entry of the envelope does not decrypt under that secret, and
\* otherwise returns the session of every entry
C22_ListAllOrNothing ==
    last.op = "list" =>
        IF \E p \in Keys(storeFile) : LoadCredentials(storeFile, p, last.key).err # "none"
        THEN last.err # "none" /\ last.res = {}
        ELSE /\ last.err = "none" \/ storeFile.kind \in {"empty", "corrupt"}
             /\ last.res = {LoadCredentials(storeFile, p, last.key).s : p \in Keys(storeFile)}

\* a listing under a secret that decrypts one of two entries only
C22_Witness ==
    /\ last.op = "list"
    /\ Cardinality(Keys(storeFile)) = 2
    /\ \E p, q \in Keys(storeFile) :
          /\ LoadCredentials(storeFile, p, last.key).err = "none"
          /\ LoadCredentials(storeFile, q, last.key).err # "none"
    /\ last.res = {}

----------------------------------------------------------------------------
(* cmd/logout.go: logout of one profile and logout --all                    *)

\* the characters strings.TrimSpace strips among those a line is typed with
WhiteSpace == {" ", "\t", "\r", "\n"}

RECURSIVE TrimLeft(_)
TrimLeft(line) ==
    IF line # <<>> /\ Head(line) \in WhiteSpace THEN TrimLeft(Tail(line)) ELSE line

RECURSIVE TrimRight(_)
TrimRight(line) ==
    IF line # <<>> /\ line[Len(line)] \in WhiteSpace
    THEN TrimRight(SubSeq(line, 1, Len(line) - 1))
    ELSE line

\* strings.TrimSpace
TrimSpace(line) == TrimRight(TrimLeft(line))

YesLine == <<"y", "e", "s">>

\* what the user types before the line ends
TypedLines ==
    {<<>>, <<"y">>, <<"n", "o">>, YesLine, <<"Y", "e", "s">>, <<"Y", "E", "S">>,
     <<" ", "y", "e", "s">>, <<"y", "e", "s", " ">>, <<"\t", "y", "e", "s", "\r">>,
     <<"y", "e", " ", "s">>, <<"y", "e", "s", "s">>, <<" ">>}

\* logout.go 46-47: reader.ReadString('\n') returns the line with its
\* delimiter, or what was typed when the input ends before one
ReadString(typed, eof) == IF eof THEN typed ELSE Append(typed, "\n")

\* the confirmation taken from the first letter of the line
ConfirmedByLetter(input) == TrimSpace(input) # <<>> /\ Head(TrimSpace(input)) = "y"

\* logout.go 48
Confirmed(input) == TrimSpace(input) = YesLine

LogoutResult(all, profile, typed, out, err) ==
    [op |-> "logout", all |-> all, profile |-> profile, typed |-> typed, out |-> out,
     err |-> err, pre |-> storeFile]

LogoutFrame == UNCHANGED <<awsFile, now, stsSeq, prompts, stsCalls, batch, daemon,
                           dotFiles, inflight>>

LogoutInit ==
    /\ storeFile \in CmdInitStores \cup {AbsentFile}
    /\ awsFile = <<>>
    /\ now = 0
    /\ stsSeq = 0
    /\ prompts = <<>>
    /\ stsCalls = <<>>
    /\ batch = IdleBatch
    /\ daemon = NoDaemon
    /\ dotFiles = NoDotFiles
    /\ inflight = NoInflight
    /\ last = NoCommand

\* logout.go 44-59: logout --all
LogoutAll ==
    \E typed \in TypedLines, eof \in BOOLEAN :
        /\ IF Confirmed(ReadString(typed, eof))
           THEN /\ storeFile' = ClearAllCredentials(storeFile).file
                /\ last' = LogoutResult(TRUE, "", typed, "All profiles removed successfully",
                                        ClearAllCredentials(storeFile).err)
           ELSE /\ UNCHANGED storeFile
                /\ last' = LogoutResult(TRUE, "", typed, "Operation cancelled", "none")
        /\ LogoutFrame

\* logout.go 61-66: the removal of the profile once it is known
LogoutProfile(profile) ==
    /\ storeFile' = RemoveProfile(storeFile, profile).file
    /\ last' = LogoutResult(FALSE, profile, <<>>,
                            IF RemoveProfile(storeFile, profile).err = "none"
                            THEN "Profile removed successfully"
                            ELSE "Failed to remove profile",
                            RemoveProfile(storeFile, profile).err)
    /\ LogoutFrame

\* logout.go 30-42, 61-66: logout of the profile named or picked from the
\* list
LogoutOne ==
    \/ \E profile \in CmdProfiles : LogoutProfile(profile)
    \/ IF ListProfiles(storeFile).err # "none" \/ ListProfiles(storeFile).keys = {}
       THEN /\ last' = LogoutResult(FALSE, "", <<>>, "No stored profiles found", "none")
            /\ UNCHANGED storeFile
            /\ LogoutFrame
       ELSE \E selected \in ListProfiles(storeFile).keys : LogoutProfile(selected)

\* a login between two logouts stores a session again
LogoutRelogin ==
    /\ storeFile' = SaveCredentials(storeFile, "x", RoleSession("x", 3, 2 * TickMs, "default"),
                                    Secret).file
    /\ last' = NoCommand
    /\ LogoutFrame

LogoutNext == LogoutAll \/ LogoutOne \/ LogoutRelogin

SpecLogout == LogoutInit /\ [][LogoutNext]_vars

\* the line is "yes" with white space before and after it and nothing else
YesBetweenSpaces(line) ==
    \E i \in 1..Len(line) :
        /\ i + 2 <= Len(line)
        /\ SubSeq(line, i, i + 2) = YesLine
        /\ \A k \in (1..Len(line)) \ (i..(i + 2)) : line[k] \in WhiteSpace

\* C23 (as amended): logout --all removes the envelope when the line the
\* user typed is "yes" once the white space around it is stripped, and
\* leaves the store as it was on every other line
C23_ClearOnlyOnTrimmedYes ==
    (last.op = "logout" /\ last.all) =>
        IF YesBetweenSpaces(last.typed)
        THEN storeFile = AbsentFile
        ELSE storeFile = last.pre

\* a store with sessions was removed on the line "yes"
C23_Witness ==
    /\ last.op = "logout"
    /\ last.all
    /\ last.typed = YesLine
    /\ Keys(last.pre) # {}
    /\ storeFile = AbsentFile

\* C23: logout --all removes the envelope when the user typed exactly
\* "yes" and leaves the store as it was on every other input
C23_ClearOnlyOnExactYes ==
    (last.op = "logout" /\ last.all) =>
        IF last.typed = YesLine
        THEN storeFile = AbsentFile
        ELSE storeFile = last.pre

----------------------------------------------------------------------------
(* Further claims about sync *)

\* the positions of the section headers [profile] in lines
HeadersOf(lines, profile) ==
    {i \in 1..Len(lines) : IsHeader(lines[i]) /\ lines[i].name = profile}

\* C24: a second sync call with the same inputs (the same stored sessions,
\* the same targets, the same prior file) writes the file the first call
\* wrote, for any number of target sessions: whichever way the stored
\* sessions are enumerated, the content written is the one in the file.
C24_SyncSameInputsSameFile ==
    (last.op = "sync" /\ last.err = "none" /\ last.targets # <<>>) =>
        \A order \in Orders({last.targets[i] : i \in 1..Len(last.targets)}) :
            Rewrite(last.pre, order) = awsFile

\* C25: after a sync every target profile has exactly one section in the
\* file; the section holds the credentials of the stored session and has,
\* on the line before its header, the managed comment with the session's
\* expiration, also when the prior file held a section of that profile.
C25_OneFreshSectionPerTarget ==
    (last.op = "sync" /\ last.err = "none") =>
        \A k \in 1..Len(last.targets) :
            LET s == last.targets[k] IN
            /\ s \in ListAllSessions(storeFile, Secret).sessions
            /\ Cardinality(HeadersOf(awsFile, s.Profile)) = 1
            /\ \A i \in HeadersOf(awsFile, s.Profile) :
                  /\ i > 1
                  /\ i + 4 <= Len(awsFile)
                  /\ SubSeq(awsFile, i - 1, i + 4) = SectionBlock(s)
                  /\ i + 4 < Len(awsFile) => awsFile[i + 5].t \in {"managed", "hdr"}

\* a prior file with a section of the profile, written by an earlier sync
\* of other credentials, was replaced
C25_Witness ==
    /\ last.op = "sync"
    /\ last.err = "none"
    /\ last.targets # <<>>
    /\ \E k \in 1..Len(last.targets) :
          \E i \in HeadersOf(last.pre, last.targets[k].Profile) :
              /\ i > 1
              /\ IsManaged(last.pre[i - 1])
              /\ last.pre[i - 1] # SectionBlock(last.targets[k])[1]

\* C26: sync writes no section for a stored session whose expiration is at
\* or before now: such a session is no target and the file has the headers
\* of its profile that it had before; when no unexpired session remains,
\* SyncAllToAWS returns count 0 without error and the file is unchanged.
C26_ExpiredNeverSynced ==
    last.op = "sync" =>
        LET stored == ListAllSessions(storeFile, Secret).sessions IN
        /\ \A k \in 1..Len(last.targets) : last.targets[k].Expiration > now
        /\ \A s \in stored :
              s.Expiration <= now =>
                  Cardinality(HeadersOf(awsFile, s.Profile))
                      = Cardinality(HeadersOf(last.pre, s.Profile))
        /\ (\A s \in stored : s.Expiration <= now) =>
              /\ last.targets = <<>>
              /\ last.count = 0
              /\ awsFile = last.pre
              /\ last.all => last.err = "none"

\* sync --all ran on a store whose only session expires at this instant
C26_Witness ==
    /\ last.op = "sync"
    /\ last.all
    /\ last.pre # <<>>
    /\ ListAllSessions(storeFile, Secret).sessions # {}
    /\ \A s \in ListAllSessions(storeFile, Secret).sessions : s.Expiration = now
    /\ last.count = 0

----------------------------------------------------------------------------
(* Further claims about console *)

\* C27: console sends no request to the federation endpoint for an MFA
\* base session: the command ends with no HTTP request sent and no URL
\* built, whether the profile was named or chosen from the list.
C27_NoFederationForMfa ==
    (last.op = "console" /\ last.s.Profile # "" /\ last.s.RoleArn = MfaMarker)
        => (last.requests = <<>> /\ ~last.url /\ last.err # "none")

\* console was run on a stored, unexpired MFA session and rejected it
C27_Witness ==
    /\ last.op = "console"
    /\ last.s.RoleArn = MfaMarker
    /\ last.s.Expiration > last.at
    /\ last.err = "MFA base sessions cannot be used for console access"
    /\ last.requests = <<>>

----------------------------------------------------------------------------
(* cmd/list.go: the daemon processes.  Each `daemon start --foreground`     *)
(* is a process of its own (the background start re-executes the binary    *)
(* with --foreground); the processes share the PID file, the envelope and  *)
(* the clock.  pc of a process is "none" (not invoked), "stat" (passed the *)
(* test for the PID file), "refused", "wait" (in the loop, blocked on its  *)
(* ticker), "exited" or "killed".                                          *)

DaemonProcs == 1..MaxDaemons

Min5 == DaemonIntervalMs

DaemonStores ==
    {StoreOf({RoleSession("a", 12, 2 * Min5, "default"), MfaSession("m", 11, 2 * Min5, "default"),
              RoleSession("b", 13, 2 * Min5, "")}),
     StoreOf({RoleSession("a", 12, 3 * Min5, "default"), RoleSession("b", 13, 0 - Min5, "default")})}

DaemonDid(op, by, at, calls, out, err) ==
    [op |-> op, by |-> by, at |-> at, calls |-> calls, out |-> out, err |-> err,
     pre |-> storeFile]

DaemonInit ==
    /\ storeFile \in DaemonStores
    /\ awsFile = <<>>
    /\ now = 0
    /\ stsSeq = 0
    /\ prompts = <<>>
    /\ stsCalls = <<>>
    /\ batch = IdleBatch
    /\ daemon = [pidFile |-> 0, pc |-> [p \in DaemonProcs |-> "none"],
                 due |-> [p \in DaemonProcs |-> 0], failed |-> [p \in DaemonProcs |-> FALSE]]
    /\ dotFiles = NoDotFiles
    /\ inflight = NoInflight
    /\ last = NoCommand

\* list.go 63-78: daemon start up to the call of startDaemonLoop: the test
\* for the PID file
DaemonStart(p) ==
    /\ daemon.pc[p] = "none"
    /\ daemon' = [daemon EXCEPT !.pc[p] = IF daemon.pidFile # 0 THEN "refused" ELSE "stat"]
    /\ last' = DaemonDid("start", p, now, <<>>, <<>>,
                         IF daemon.pidFile # 0 THEN "Daemon is already running" ELSE "none")
    /\ UNCHANGED <<storeFile, awsFile, now, stsSeq, prompts, stsCalls, batch, dotFiles, inflight>>

\* a daemon that ends when it cannot resolve the secret
AfterCheckFatal(err) == IF err = "Encryption secret required" THEN "exited" ELSE "wait"

\* list.go 128-147: runRefreshCheck returns nothing; the loop goes on to
\* wait for the next tick
AfterCheck(err) == "wait"

\* list.go 144-146: one run of the check by process p at time t, after
\* which the process waits for its ticker
DaemonRan(op, p, t, r, err) ==
    /\ storeFile' = r.file
    /\ stsSeq' = r.seq
    /\ now' = t
    /\ last' = DaemonDid(op, p, t, r.calls, r.out, err)
    /\ UNCHANGED <<awsFile, prompts, stsCalls, batch, dotFiles, inflight>>

\* list.go 150-213 as the loop calls it: the secret may or may not resolve,
\* the map is listed in any order, STS answers for the profiles of okSet
DaemonCheck(op, p, t, pidFile) ==
    LET listed == ListAllSessions(storeFile, Secret).sessions
        tried == {s.Profile : s \in {x \in listed : DaemonEligible(x, t)}}
        After(err) ==
            daemon' = [daemon EXCEPT !.pidFile = pidFile, !.pc[p] = AfterCheck(err),
                                     !.due[p] = t + DaemonIntervalMs,
                                     !.failed[p] = @ \/ err # "none"]
    IN \/ \E order \in Orders(listed), okSet \in SUBSET tried :
            /\ DaemonRan(op, p, t, RunRefreshCheck(storeFile, stsSeq, t, TRUE, order, okSet),
                         "none")
            /\ After("none")
       \/ /\ DaemonRan(op, p, t, RunRefreshCheck(storeFile, stsSeq, t, FALSE, <<>>, {}),
                       "Encryption secret required")
          /\ After("Encryption secret required")

\* list.go 105-147: startDaemonLoop up to the first wait: the PID file is
\* written and the first check runs
DaemonEnter(p) ==
    /\ daemon.pc[p] = "stat"
    /\ DaemonCheck("enter", p, now, p)

\* list.go 128-147: the ticker of process p fires and the check runs again
DaemonWake(p) ==
    /\ daemon.pc[p] = "wait"
    /\ daemon.due[p] <= MaxTicks * DaemonIntervalMs
    /\ DaemonCheck("tick", p, IF now < daemon.due[p] THEN daemon.due[p] ELSE now,
                   daemon.pidFile)

\* list.go 215-242: daemon stop
DaemonStop ==
    /\ daemon' = IF daemon.pidFile = 0 THEN daemon
                 ELSE [daemon EXCEPT !.pidFile = 0, !.pc[daemon.pidFile] = "killed"]
    /\ last' = DaemonDid("stop", daemon.pidFile, now, <<>>, <<>>,
                         IF daemon.pidFile = 0 THEN "Daemon is not running" ELSE "none")
    /\ UNCHANGED <<storeFile, awsFile, now, stsSeq, prompts, stsCalls, batch, dotFiles, inflight>>

DaemonNext ==
    \/ \E p \in DaemonProcs : DaemonStart(p)
    \/ \E p \in DaemonProcs : DaemonEnter(p)
    \/ \E p \in DaemonProcs : DaemonWake(p)
    \/ DaemonStop

SpecDaemon == DaemonInit /\ [][DaemonNext]_vars

----------------------------------------------------------------------------
(* Claims about the daemon *)

\* the profiles the check of the last step tried to refresh
Attempted == {last.out[i].arg : i \in {j \in 1..Len(last.out) :
                 last.out[j].msg \in {"Successfully refreshed", "Refresh failed"}}}

\* C28: on a daemon tick a session is refreshed only if it is not more
\* than 15 minutes from its expiration, is not already expired, is not an
\* MFA session and has a source profile; for a session that fails one of
\* these the tick makes no refresh attempt and leaves its record as it was.
C28_TickRefreshesOnlyEligible ==
    (last.op \in {"enter", "tick"} /\ last.err = "none") =>
        \A s \in ListAllSessions(last.pre, Secret).sessions :
            LET may == /\ s.Expiration - last.at <= DaemonWindowMs
                       /\ ~(last.at > s.Expiration)
                       /\ s.RoleArn # MfaMarker
                       /\ s.SourceProfile # ""
            IN /\ s.Profile \in Attempted => may
               /\ ~may => /\ s.Profile \notin Attempted
                          /\ \A i \in 1..Len(last.calls) : last.calls[i].target # s.Profile
                          /\ storeFile.data[s.Profile] = last.pre.data[s.Profile]

\* a tick refreshed the role session and passed over the MFA session and
\* the session without source next to it
C28_Witness ==
    /\ last.op \in {"enter", "tick"}
    /\ Attempted = {"a"}
    /\ storeFile.data["a"] # last.pre.data["a"]
    /\ {"m", "b"} \subseteq DOMAIN last.pre.data
    /\ storeFile.data["m"] = last.pre.data["m"]

\* C29: of any number of concurrent daemon start invocations at most one
\* enters the refresh loop: at most one daemon runs at a time.
C29_AtMostOneDaemon ==
    Cardinality({p \in DaemonProcs : daemon.pc[p] = "wait"}) <= 1

\* C30: a tick on which the secret cannot be resolved logs the error and
\* nothing else: the store is as it was, no request was sent, and the
\* daemon is still in its loop, where every tick runs the check again.
C30_SecretFailureKeepsDaemon ==
    /\ (last.op \in {"enter", "tick"} /\ last.err = "Encryption secret required") =>
          /\ storeFile = last.pre
          /\ last.calls = <<>>
          /\ last.out = <<Out("Error: encryption secret required", "")>>
          /\ daemon.pc[last.by] = "wait"
    /\ last.op = "tick" => (last.out # <<>> /\ daemon.pc[last.by] = "wait")

\* a daemon that could not resolve the secret on an earlier tick ran the
\* check on a later tick and refreshed a session
C30_Witness ==
    /\ last.op = "tick"
    /\ daemon.failed[last.by]
    /\ last.err = "none"
    /\ "a" \in Attempted
    /\ last.calls # <<>>

----------------------------------------------------------------------------
(* Claims about what is written under $HOME/.cloudctl *)

\* the credential values STS has issued, as they read in the clear
IssuedSecrets ==
    UNION {{AccessKeyOf(n), SecretKeyOf(n), SessionTokenOf(n)} : n \in 1..(stsSeq + 1)}

\* C32: no command writes access_key, secret_key or session_token in
\* plaintext to a file under $HOME/.cloudctl, with or without a secret:
\* no session file holds a credential value STS issued.
C32_NoPlaintextOnDisk ==
    \A p \in DOMAIN dotFiles.sessions :
        {dotFiles.sessions[p].AccessKey, dotFiles.sessions[p].SecretKey,
         dotFiles.sessions[p].SessionToken} \cap IssuedSecrets = {}

----------------------------------------------------------------------------
(* internal/storage.go: the alias stores mfa.json and roles.json.  An alias *)
(* file has the kinds of the envelope file; data maps an alias to an ARN.   *)
(* A Go map read from a file is nil when the file could not be read or      *)
(* parsed, or holds the JSON text null.                                     *)

NilMapPanic == "panic: assignment to entry in nil map"

\* storage.go 275-289
ListMFADevices(file) ==
    CASE file.kind = "absent" -> [err |-> "none", nil |-> FALSE, data |-> NoData]
      [] file.kind \in {"empty", "corrupt"} ->
            [err |-> "failed to parse MFA store", nil |-> TRUE, data |-> NoData]
      [] file.kind = "null" -> [err |-> "none", nil |-> TRUE, data |-> NoData]
      [] OTHER -> [err |-> "none", nil |-> FALSE, data |-> file.data]

\* storage.go 255-272
SaveMFADevice(file, name, arn) ==
    LET listed == ListMFADevices(file)
        devices == IF listed.err # "none"
                   THEN [err |-> "none", nil |-> FALSE, data |-> NoData]
                   ELSE listed
    IN IF devices.nil
       THEN [err |-> NilMapPanic, file |-> file]
       ELSE [err |-> "none", file |-> JsonFile(PutEntry(devices.data, name, arn))]

\* storage.go 338-352
ListRoles(file) ==
    CASE file.kind = "absent" -> [err |-> "none", nil |-> FALSE, data |-> NoData]
      [] file.kind \in {"empty", "corrupt"} ->
            [err |-> "failed to parse roles store", nil |-> TRUE, data |-> NoData]
      [] file.kind = "null" -> [err |-> "none", nil |-> TRUE, data |-> NoData]
      [] OTHER -> [err |-> "none", nil |-> FALSE, data |-> file.data]

\* storage.go 319-335: SaveRole and the SaveAllRoles it ends with
SaveRole(file, name, arn) ==
    LET roles == ListRoles(file) IN
    IF roles.nil
    THEN [err |-> NilMapPanic, file |-> file]
    ELSE [err |-> "none", file |-> JsonFile(PutEntry(roles.data, name, arn))]

AliasNames == {"dev", "prod"}
AliasArns == {RoleR, DeviceU}

AliasInitFiles ==
    {AbsentFile, EmptyFile, NullFile, JsonFile([n \in {"dev"} |-> RoleR])}
        \cup {CorruptFile(raw) : raw \in CorruptContents}

AliasInit ==
    /\ storeFile = AbsentFile
    /\ awsFile = <<>>
    /\ now = 0
    /\ stsSeq = 0
    /\ prompts = <<>>
    /\ stsCalls = <<>>
    /\ batch = IdleBatch
    /\ daemon = NoDaemon
    /\ dotFiles \in [sessions : {NoData}, mfa : AliasInitFiles, roles : AliasInitFiles]
    /\ inflight = NoInflight
    /\ last = NoCommand

AliasFrame ==
    UNCHANGED <<storeFile, awsFile, now, stsSeq, prompts, stsCalls, batch, daemon, inflight>>

\* the mfa add command: an MFA device alias is saved
AliasSaveDevice ==
    \E name \in AliasNames, arn \in AliasArns :
        LET r == SaveMFADevice(dotFiles.mfa, name, arn) IN
        /\ dotFiles' = [dotFiles EXCEPT !.mfa = r.file]
        /\ last' = [op |-> "SaveMFADevice", name |-> name, arn |-> arn, err |-> r.err,
                    pre |-> dotFiles.mfa, post |-> r.file]
        /\ AliasFrame

\* role.go 55-69: role add, a role alias is saved
AliasSaveRole ==
    \E name \in AliasNames, arn \in AliasArns :
        LET r == SaveRole(dotFiles.roles, name, arn) IN
        /\ dotFiles' = [dotFiles EXCEPT !.roles = r.file]
        /\ last' = [op |-> "SaveRole", name |-> name, arn |-> arn, err |-> r.err,
                    pre |-> dotFiles.roles, post |-> r.file]
        /\ AliasFrame

AliasNext == AliasSaveDevice \/ AliasSaveRole

SpecAlias == AliasInit /\ [][AliasNext]_vars

\* C40: saving an alias (SaveRole, SaveMFADevice) while the alias file is
\* not valid JSON returns an error and leaves the file unchanged: it
\* neither crashes nor replaces the file.
C40_InvalidAliasFileRefused ==
    (last.op \in {"SaveRole", "SaveMFADevice"} /\ last.pre.kind \in {"corrupt", "empty"}) =>
        /\ last.err \notin {"none", NilMapPanic}
        /\ last.post = last.pre

----------------------------------------------------------------------------
(* internal/crypto.go on its own: values sealed under one secret, handed   *)
(* to Decrypt as they are, with bits flipped or cut short, under the same  *)
(* or another secret.                                                      *)

CryptoKeys == {"K1", "K2", "K1 "}
CryptoPlaintexts == {"", "secret message", AccessKeyOf(1)}

\* the bits of a sealed value that the model tells apart: the first and the
\* last of the nonce, of the data and of the tag
BitPositions == {<<"nonce", 1>>, <<"nonce", 8 * NonceSize>>, <<"data", 1>>, <<"data", 8>>,
                 <<"tag", 1>>, <<"tag", 8 * TagSize>>}

\* valid[i] ^= bit: one more bit flipped; a bit flipped twice is as before
FlipBit(cipherText, bit) ==
    LET before == IF "flipped" \in DOMAIN cipherText THEN cipherText.flipped ELSE {}
        after == (before \ {bit}) \cup ({bit} \ before)
    IN IF after = {}
       THEN [k |-> cipherText.k, pt |-> cipherText.pt]
       ELSE [k |-> cipherText.k, pt |-> cipherText.pt, flipped |-> after]

\* the first n bytes of a value, fewer than the whole
Truncated(n) == [len |-> n]

\* the bits a sealed value has: no data bits when the plaintext is empty
BitsOf(pt) == IF pt = "" THEN {b \in BitPositions : b[1] # "data"} ELSE BitPositions

\* the values handed to Decrypt
CryptoInputs(pt, key) ==
    {Encrypt(pt, key)}
        \cup {FlipBit(Encrypt(pt, key), b) : b \in BitsOf(pt)}
        \cup {FlipBit(FlipBit(Encrypt(pt, key), b), c) : b, c \in BitsOf(pt)}
        \cup {Truncated(n) : n \in {0, 3, NonceSize - 1, NonceSize, NonceSize + TagSize - 1}}

CryptoInit ==
    /\ storeFile = AbsentFile
    /\ awsFile = <<>>
    /\ now = 0
    /\ stsSeq = 0
    /\ prompts = <<>>
    /\ stsCalls = <<>>
    /\ batch = IdleBatch
    /\ daemon = NoDaemon
    /\ dotFiles = NoDotFiles
    /\ inflight = NoInflight
    /\ last = NoCommand

CryptoFrame ==
    UNCHANGED <<storeFile, awsFile, now, stsSeq, prompts, stsCalls, batch, daemon, dotFiles,
                inflight>>

\* crypto.go 35-58: Decrypt is called
CryptoOpen ==
    \E pt \in CryptoPlaintexts, key \in CryptoKeys, key2 \in CryptoKeys :
        \E input \in CryptoInputs(pt, key) :
            /\ last' = [op |-> "open", pt |-> pt, key |-> key, key2 |-> key2, input |-> input,
                        err |-> Decrypt(input, key2).err, res |-> Decrypt(input, key2).pt]
            /\ CryptoFrame

\* storage.go 17-79: a session saved under one secret is loaded under another
CryptoLoad ==
    \E s \in {x \in StoreSessions : x.Profile = "p1" /\ ~x.Revoked},
       key \in CryptoKeys, key2 \in CryptoKeys :
        LET r == LoadCredentials(SaveCredentials(AbsentFile, s.Profile, s, key).file,
                                 s.Profile, key2) IN
        /\ last' = [op |-> "load", pt |-> s, key |-> key, key2 |-> key2,
                    input |-> Truncated(0), err |-> r.err, res |-> r.s]
        /\ CryptoFrame

CryptoNext == CryptoOpen \/ CryptoLoad

SpecCrypto == CryptoInit /\ [][CryptoNext]_vars

\* C33: a value encrypted under secret K is returned by decrypt only under
\* K and only from the ciphertext as it was sealed: under any other secret,
\* and from a ciphertext with a bit flipped, decrypt returns an error; and
\* loading a session with a secret other than the one it was saved with
\* returns an error.
C33_WrongKeyOrTamperFails ==
    /\ (last.op = "open" /\ last.err = "none") =>
          /\ last.key2 = last.key
          /\ last.input = Encrypt(last.pt, last.key)
          /\ last.res = last.pt
    /\ (last.op = "open" /\ last.key2 = last.key /\ last.input = Encrypt(last.pt, last.key)) =>
          last.err = "none"
    /\ (last.op = "load" /\ last.key2 # last.key) => last.err # "none"
    /\ (last.op = "load" /\ last.key2 = last.key) => last.err = "none"

\* Decrypt refused, under the right secret, a value with one bit flipped
C33_Witness ==
    /\ last.op = "open"
    /\ last.key2 = last.key
    /\ last.pt = "secret message"
    /\ "flipped" \in DOMAIN last.input
    /\ last.input.flipped = {<<"tag", 8 * TagSize>>}
    /\ last.err # "none"

\* C34: decrypt reports a ciphertext shorter than the nonce and a failed
\* tag check with the same error: every refusal of Decrypt reads alike.
C34_OneDecryptError ==
    (last.op = "open" /\ last.err # "none") =>
        last.err = Decrypt(FlipBit(Encrypt(last.pt, last.key), <<"tag", 1>>), last.key).err

----------------------------------------------------------------------------
(* The envelope file from its creation on: save, remove and clear_all      *)
(* starting from no file, with the profiles saved and not removed since    *)
(* kept in last.live.                                                      *)

LifeProfiles == StoreProfiles \cup {"p3"}

LifeSessions ==
    {[s EXCEPT !.Profile = p, !.SessionName = p] :
        p \in LifeProfiles,
        s \in {x \in StoreSessions : x.Profile = "p1" /\ ~x.Revoked /\ x.Expiration = 2000}}

LifeDid(op, profile, err, live) == [op |-> op, profile |-> profile, err |-> err, live |-> live]

LifeInit ==
    /\ storeFile = AbsentFile
    /\ awsFile = <<>>
    /\ now = 0
    /\ stsSeq = 0
    /\ prompts = <<>>
    /\ stsCalls = <<>>
    /\ batch = IdleBatch
    /\ daemon = NoDaemon
    /\ dotFiles = NoDotFiles
    /\ inflight = NoInflight
    /\ last = LifeDid("none", "", "none", {})

LifeFrame ==
    UNCHANGED <<awsFile, now, stsSeq, prompts, stsCalls, batch, daemon, dotFiles, inflight>>

\* storage.go 17-59
LifeSave ==
    \E s \in LifeSessions, key \in StoreKeys :
        LET r == SaveCredentials(storeFile, s.Profile, s, key) IN
        /\ storeFile' = r.file
        /\ last' = LifeDid("save", s.Profile, r.err,
                           IF r.err = "none" THEN last.live \cup {s.Profile} ELSE last.live)
        /\ LifeFrame

\* storage.go 167-193
LifeRemove ==
    \E p \in LifeProfiles :
        LET r == RemoveProfile(storeFile, p) IN
        /\ storeFile' = r.file
        /\ last' = LifeDid("remove", p, r.err,
                           IF r.err = "none" THEN last.live \ {p} ELSE last.live)
        /\ LifeFrame

\* storage.go 196-201
LifeClearAll ==
    LET r == ClearAllCredentials(storeFile) IN
    /\ storeFile' = r.file
    /\ last' = LifeDid("clear_all", "", r.err, IF r.err = "none" THEN {} ELSE last.live)
    /\ LifeFrame

LifeNext == LifeSave \/ LifeRemove \/ LifeClearAll

SpecLife == LifeInit /\ [][LifeNext]_vars

\* C39: after any sequence of save, remove and clear_all starting from no
\* file, the envelope file either does not exist or holds at least one
\* profile, and ListProfiles returns exactly the profiles saved and not
\* removed since.
C39_AbsentOrNonEmpty ==
    /\ \/ storeFile.kind = "absent"
       \/ storeFile.kind = "json" /\ DOMAIN storeFile.data # {}
    /\ ListProfiles(storeFile).err = "none"
    /\ ListProfiles(storeFile).keys = last.live

\* the only profile left was removed, and the file with it
C39_Witness ==
    /\ last.op = "remove"
    /\ last.err = "none"
    /\ last.live = {}
    /\ storeFile.kind = "absent"

----------------------------------------------------------------------------
\* C35: after a daemon tick that silently refreshed at least one session,
\* ~/.aws/credentials holds the refreshed credentials of that session: the
\* section SyncAllToAWS writes for the session as it is now stored.
C35_TickSyncsRefreshed ==
    last.op \in {"enter", "tick"} =>
        \A s \in ListAllSessions(storeFile, Secret).sessions :
            (\E j \in 1..Len(last.out) :
                 last.out[j].msg = "Successfully refreshed" /\ last.out[j].arg = s.Profile) =>
                \E i \in 1..Len(awsFile) :
                    /\ i + Len(SectionBlock(s)) - 1 <= Len(awsFile)
                    /\ SubSeq(awsFile, i, i + Len(SectionBlock(s)) - 1) = SectionBlock(s)

----------------------------------------------------------------------------
\* C37: sync leaves every managed section that is not among the targets
\* still owned: a section of the prior file whose header has a "; Managed by
\* cloudctl" comment directly in front of it, and whose profile is no
\* target, has that comment directly in front of its header in the new
\* file, wherever the section sits relative to the target sections.
C37_NonTargetStaysOwned ==
    (last.op = "sync" /\ last.err = "none") =>
        \A h \in 2..Len(last.pre) :
            (/\ IsHeader(last.pre[h])
             /\ IsManaged(last.pre[h - 1])
             /\ \A k \in 1..Len(last.targets) : last.targets[k].Profile # last.pre[h].name) =>
                \E g \in 2..Len(awsFile) :
                    /\ awsFile[g] = last.pre[h]
                    /\ awsFile[g - 1] = last.pre[h - 1]

----------------------------------------------------------------------------
\* C36: the refreshed count of the refresh --all summary equals the number
\* of enumerated sessions whose stored credentials were replaced during the
\* batch, and each enumerated session is counted in at most one of
\* refreshed, skipped and failed: the three counts together do not exceed
\* the number of sessions enumerated.
C36_RefreshedCountsReplaced ==
    last.op = "refresh --all end" =>
        LET enumerated == ListProfiles(last.began).keys IN
        /\ last.refreshed
              = Cardinality({p \in enumerated : Renewed(last.began, storeFile, p)})
        /\ last.refreshed + last.skipped + last.failed <= Cardinality(enumerated)

----------------------------------------------------------------------------
(* Commands and the daemon as separate processes on one envelope file.     *)
(* A refresh (refresh command or daemon tick) holds the session it loaded  *)
(* until it saves; a write of the file is os.WriteFile, which opens the    *)
(* file with O_TRUNC and then writes the bytes, so the file is seen empty  *)
(* and partly written before it is seen whole; os.Remove is one step.      *)
(* inflight.write is the write under way, inflight.refresh the session a   *)
(* refresh has loaded; last.loggedOut holds the profiles whose logout      *)
(* returned successfully with no login since.                              *)

RaceProfiles == {"a", "b"}

RaceStores ==
    {StoreOf({RoleSession(p, 10 + e, e * Min5, "default") : p \in ps}) :
        ps \in (SUBSET RaceProfiles) \ {{}}, e \in {1, 2}}

NoWrite == [pc |-> "idle"]
NoRefresh == [pc |-> "idle"]

RaceDid(op, profile, err, saw, prev, new, loggedOut) ==
    [op |-> op, profile |-> profile, err |-> err, saw |-> saw, prev |-> prev, new |-> new,
     loggedOut |-> loggedOut]

RaceInit ==
    /\ storeFile \in RaceStores
    /\ awsFile = <<>>
    /\ now = 0
    /\ stsSeq = 0
    /\ prompts = <<>>
    /\ stsCalls = <<>>
    /\ batch = IdleBatch
    /\ daemon = NoDaemon
    /\ dotFiles = NoDotFiles
    /\ inflight = [write |-> NoWrite, refresh |-> NoRefresh]
    /\ last = RaceDid("none", "", "none", AbsentFile, AbsentFile, AbsentFile, {})

RaceFrame == UNCHANGED <<awsFile, now, prompts, stsCalls, batch, daemon, dotFiles>>

\* storage.go 58, 192: os.WriteFile(storePath, ...), up to the moment the
\* file is open and truncated
WriteFile(by, profile, new) ==
    /\ storeFile' = EmptyFile
    /\ inflight' = [inflight EXCEPT !.write = [pc |-> "open", by |-> by, profile |-> profile,
                                                prev |-> storeFile, new |-> new],
                                    !.refresh = IF by = "refresh" THEN NoRefresh ELSE @]

\* os.WriteFile: some of the bytes are in the file
RaceWritePart ==
    /\ inflight.write.pc = "open"
    /\ storeFile' = CorruptFile("{ invalid json...")
    /\ inflight' = [inflight EXCEPT !.write.pc = "part"]
    /\ last' = [last EXCEPT !.op = "write part"]
    /\ UNCHANGED stsSeq
    /\ RaceFrame

\* os.WriteFile returns: the bytes are all in the file, and the command
\* that wrote them returns
RaceWriteEnd ==
    /\ inflight.write.pc \in {"open", "part"}
    /\ storeFile' = inflight.write.new
    /\ inflight' = [inflight EXCEPT !.write = NoWrite]
    /\ last' = RaceDid(inflight.write.by, inflight.write.profile, "none", storeFile,
                       inflight.write.prev, inflight.write.new,
                       IF inflight.write.by = "logout"
                       THEN last.loggedOut \cup {inflight.write.profile}
                       ELSE last.loggedOut)
    /\ UNCHANGED stsSeq
    /\ RaceFrame

\* list.go 157-199, refresh.go 85: a refresh lists or loads the sessions and
\* goes on with one it found eligible
RaceRefreshLoad ==
    /\ inflight.refresh.pc = "idle"
    /\ inflight.write.pc = "idle"
    /\ \E s \in ListAllSessions(storeFile, Secret).sessions :
          /\ DaemonEligible(s, now)
          /\ inflight' = [inflight EXCEPT !.refresh = [pc |-> "loaded", s |-> s]]
          /\ last' = [last EXCEPT !.op = "refresh load", !.profile = s.Profile]
    /\ UNCHANGED <<storeFile, stsSeq>>
    /\ RaceFrame

\* aws.go 44-115: PerformRefresh for the session loaded, up to the call of
\* os.WriteFile in SaveCredentials
RaceRefreshSave ==
    /\ inflight.refresh.pc = "loaded"
    /\ inflight.write.pc = "idle"
    /\ \E ok \in BOOLEAN :
          LET s == inflight.refresh.s
              r == PerformRefresh(storeFile, stsSeq, now, s, Secret, s.Region, ok)
          IN /\ stsSeq' = r.seq
             /\ IF r.err = "none"
                THEN WriteFile("refresh", s.Profile, r.file)
                ELSE /\ inflight' = [inflight EXCEPT !.refresh = NoRefresh]
                     /\ UNCHANGED storeFile
             /\ last' = [last EXCEPT !.op = "refresh save", !.profile = s.Profile,
                                     !.err = r.err]
    /\ RaceFrame

\* logout.go 61, storage.go 167-193: logout of one profile; the last
\* profile goes with the file, by os.Remove
RaceLogout ==
    /\ inflight.write.pc = "idle"
    /\ \E p \in RaceProfiles :
          LET r == RemoveProfile(storeFile, p) IN
          IF r.err # "none"
          THEN /\ last' = [last EXCEPT !.op = "logout", !.profile = p, !.err = r.err]
               /\ UNCHANGED <<storeFile, inflight>>
          ELSE IF r.file = AbsentFile
          THEN /\ storeFile' = AbsentFile
               /\ last' = RaceDid("logout", p, "none", storeFile, storeFile, AbsentFile,
                                  last.loggedOut \cup {p})
               /\ UNCHANGED inflight
          ELSE /\ WriteFile("logout", p, r.file)
               /\ last' = [last EXCEPT !.op = "logout begins", !.profile = p, !.err = "none"]
    /\ UNCHANGED stsSeq
    /\ RaceFrame

\* login.go 679, mfa-login.go 334: a new login or mfa-login stores a session
RaceLogin ==
    /\ inflight.write.pc = "idle"
    /\ stsSeq < MaxSts
    /\ \E p \in RaceProfiles :
          LET r == SaveCredentials(storeFile, p,
                                   RoleSession(p, stsSeq + 1, now + LoginDuration * MsPerSec,
                                               "default"),
                                   Secret)
          IN /\ r.err = "none"
             /\ WriteFile("login", p, r.file)
             /\ last' = [last EXCEPT !.op = "login begins", !.profile = p, !.err = "none",
                                     !.loggedOut = @ \ {p}]
    /\ stsSeq' = stsSeq + 1
    /\ RaceFrame

\* storage.go 62-68, 233-241: another process reads the file
RaceRead ==
    /\ last' = RaceDid("read", "", ListProfiles(storeFile).err, storeFile,
                       IF inflight.write.pc = "idle" THEN storeFile ELSE inflight.write.prev,
                       IF inflight.write.pc = "idle" THEN storeFile ELSE inflight.write.new,
                       last.loggedOut)
    /\ UNCHANGED <<storeFile, stsSeq, inflight>>
    /\ RaceFrame

RaceNext ==
    \/ RaceWritePart
    \/ RaceWriteEnd
    \/ RaceRefreshLoad
    \/ RaceRefreshSave
    \/ RaceLogout
    \/ RaceLogin
    \/ RaceRead

SpecRace == RaceInit /\ [][RaceNext]_vars

\* C31: the envelope file is never observable partially rewritten: a
\* process that reads it while another runs save or remove sees either the
\* complete previous envelope or the complete new one, never an empty or
\* truncated file.
C31_ReaderSeesWholeEnvelope ==
    last.op = "read" =>
        /\ last.saw \in {last.prev, last.new}
        /\ last.saw.kind \notin {"empty", "corrupt"}

\* C38: after logout of profile P has returned successfully, P stays absent
\* from the store until a new login or mfa-login for P, even when a daemon
\* tick or a refresh that loaded P before the logout completes after it.
C38_LoggedOutStaysAbsent ==
    inflight.write.pc = "idle" =>
        \A p \in last.loggedOut : ~HasRecord(storeFile, p)

====
